---- MODULE Spec2Model ----
(***************************************************************************)
(* Blender BIM scripts (bureau-noir/blender-code3): the glb/SQLite/JSON   *)
(* export script, its companion import script, the collection aligner and *)
(* the collection selector, as state machines over the host scene         *)
(* (bpy.data.collections, objects) and the export directory tree.         *)
(*                                                                         *)
(* Python strings are sequences of one-character strings, so that `in`,   *)
(* startswith, replace and split are computed as Python computes them.    *)
(***************************************************************************)
EXTENDS Integers, Sequences, FiniteSets, TLC

VARIABLES
    colls,        \* bpy.data.collections, in container order
    objs,         \* bpy.data.objects: id -> [name, type, loc, props]
    selected,     \* ids of the objects whose select flag is set
    cfg,          \* the export script's module-level filters
    expPc,        \* position of the export script
    toExtract,    \* COLLECTIONS_TO_EXTRACT
    ci,           \* index of the collection being extracted
    storeys,      \* storey collections of the collection being extracted
    si,           \* index of the storey batch being processed
    index_list,   \* the export script's in-memory index_list
    fsGlb,        \* path of a glb file on disk -> the meshes it holds
    fsElem,       \* directory -> rows of ifc_element of its bim_library.sqlite
    fsProp,       \* directory -> rows of ifc_property
    fsIndex,      \* directory -> content of index.json (where it exists)
    fsLog,        \* directory -> content of log.txt (one entry per write)
    fsDirs,       \* directories on disk
    runs,         \* script executions so far (also datetime.now())
    expDiscipline, \* the export script's global `discipline`, Unbound until assigned
    sceneRoot,    \* bpy.context.scene.collection: [children, objects]
    impCfg,       \* the import script's module-level filters
    impPc,        \* position of the import script
    index,        \* the import script's index (json.load of index.json)
    batch_map,    \* the import script's batch_map, in insertion order
    bi,           \* index of the batch being imported
    impRuns,      \* executions of the import script so far
    alCall,       \* the last CollAligner call: [op, c1, c2, category]
    alResult,     \* the dict that call returned
    objsBefore,   \* bpy.data.objects when that call was made
    alCalls,      \* CollAligner calls so far
    hidden,       \* ids of the objects whose visible_get() is False
    selPc,        \* position inside select_collection_complete
    selCall,      \* its arguments: [collection_name, include_hidden]
    selAnalysis,  \* its local analysis
    selObjects,   \* its local selected_objects, a list of object ids
    selExpected,  \* its local expected
    selPolls,     \* iterations of its wait loop begun
    selSlept,     \* tenths of a second slept in its wait loop
    selSeen,      \* its local selected, the count read by the last poll
    selResult,    \* the dict the last call returned
    selCalls,     \* select_collection_complete calls so far
    rnCall,       \* the last call of a coll_name function and its arguments
    collsBefore,  \* bpy.data.collections when that call was made
    rnCalls,      \* coll_name calls so far
    patPc,        \* position inside select_by_pattern
    patCall,      \* its arguments: [pattern, include_hidden]
    patQueue,     \* the matching collection names it has still to select
    patResults,   \* its local results, as (collection name, result) pairs
    patResult,    \* the dict the last select_by_pattern call returned
    objMats,      \* object id -> obj.data.materials, a list of material ids
    materials,    \* bpy.data.materials
    trCall,       \* the arguments of the last apply_transparency call
    trCalls,      \* apply_transparency calls so far
    colCall,      \* the last call of a coll_color function, with what it returned
    colCalls,     \* coll_color calls so far
    sceneBefore,  \* selection, visibility and materials when the last call began
    lastTool,     \* the selector, transparency or colour function called last
    meshVerts,    \* object id -> world coordinates of its vertices, in 1/1 024 000 m
    tiPc,         \* position in tile_building_footprint
    building_bounds, \* the dict get_building_bounds returned, or None
    modules,      \* the list create_simple_tiling_modules returned
    usPc,         \* position in analyze_floor_usage
    usage_data,   \* the dict get_floor_usage_data returned, or None
    total_elements \* the total get_floor_usage_data printed

sceneVars  == <<colls, objs, selected, sceneRoot>>
fsVars     == <<fsGlb, fsElem, fsProp, fsIndex, fsLog, fsDirs>>
exportVars == <<cfg, expPc, toExtract, ci, storeys, si, index_list, runs, expDiscipline>>
importVars == <<impCfg, impPc, index, batch_map, bi, impRuns>>
alignVars  == <<alCall, alResult, objsBefore, alCalls>>
selectVars == <<hidden, selPc, selCall, selAnalysis, selObjects, selExpected, selPolls,
                selSlept, selSeen, selResult, selCalls>>
renameVars == <<rnCall, collsBefore, rnCalls>>
patVars    == <<patPc, patCall, patQueue, patResults, patResult>>
transpVars == <<objMats, materials, trCall, trCalls>>
callVars   == <<sceneBefore, lastTool>>
colorVars  == <<colCall, colCalls>>
selectorSide == <<selectVars, patVars, transpVars, callVars, colorVars>>
toolVars   == <<alignVars, selectorSide, renameVars>>
tilingVars == <<meshVerts, tiPc, building_bounds, modules>>
usageVars  == <<usPc, usage_data, total_elements>>
analysisVars == <<tilingVars, usageVars>>
vars == <<sceneVars, fsVars, exportVars, importVars, toolVars, analysisVars>>

(***************************************************************************)
(* Bounds                                                                  *)
(***************************************************************************)
MaxRuns == 2          \* executions of the export script
MaxImportRuns == 2    \* executions of the import script
MaxIndexLen == 3      \* entries of an index.json given to the import script
MaxAlignCalls == 2     \* calls of CollAligner methods in one session
MaxSelectCalls == 2    \* calls of the selection and transparency tools in one session
MaxRenameCalls == 2    \* calls of coll_name functions in one session
MaxVertices == 2       \* vertices of the structure mesh the tiling reads
MaxUsageRows == 2      \* rows of the ifc_element table the usage analysis reads

(***************************************************************************)
(* Python values and str methods                                           *)
(***************************************************************************)
None == <<"None">>            \* Python None (no character is "None")

Truthy(x) == x # None /\ x # <<>>

\* a name that no assignment has bound yet
Unbound == <<"unbound">>

\* a value that is not a str: its type and the value; a float is carried as a
\* count of halves, a list by its length
Val(type, v) == <<type, v>>

IsStr(v) == v = <<>> \/ v[1] \notin {"int", "bool", "float", "list"}

\* isinstance(v, (str, int, float, bool))
IsSimple(v) == IsStr(v) \/ v[1] \in {"int", "bool", "float"}

sDigits == <<"0","1","2","3","4","5","6","7","8","9">>
sTrue == <<"T","r","u","e">>
sFalse == <<"F","a","l","s","e">>

\* str(n) of a natural number
RECURSIVE StrNat(_)
StrNat(n) == IF n < 10 THEN <<sDigits[n + 1]>> ELSE StrNat(n \div 10) \o <<sDigits[(n % 10) + 1]>>

StrInt(n) == IF n < 0 THEN <<"-">> \o StrNat(0 - n) ELSE StrNat(n)

\* str(x) of a float that is h halves
StrHalves(h) ==
    LET a == IF h < 0 THEN 0 - h ELSE h
    IN  (IF h < 0 THEN <<"-">> ELSE <<>>) \o StrNat(a \div 2) \o <<".">> \o
        (IF a % 2 = 0 THEN <<"0">> ELSE <<"5">>)

\* str(v) of a str, int, float or bool
PyStr(v) ==
    IF IsStr(v) THEN v
    ELSE IF v[1] = "bool" THEN (IF v[2] THEN sTrue ELSE sFalse)
    ELSE IF v[1] = "int" THEN StrInt(v[2])
    ELSE StrHalves(v[2])

\* d[k] = v on a dict held as its (key, value) pairs in insertion order
DictSet(d, k, v) ==
    IF \E i \in 1..Len(d) : d[i][1] = k
    THEN [i \in 1..Len(d) |-> IF d[i][1] = k THEN <<k, v>> ELSE d[i]]
    ELSE Append(d, <<k, v>>)

\* str.startswith
StartsWith(s, p) == Len(p) <= Len(s) /\ SubSeq(s, 1, Len(p)) = p

\* the `in` operator on two str: p in s
Contains(p, s) == \E i \in 1..(Len(s) - Len(p) + 1) : SubSeq(s, i, i + Len(p) - 1) = p

\* str.replace(old, new) for a non-empty old: leftmost non-overlapping matches
RECURSIVE Replace(_, _, _)
Replace(s, old, new) ==
    IF Len(s) < Len(old) THEN s
    ELSE IF SubSeq(s, 1, Len(old)) = old
         THEN new \o Replace(SubSeq(s, Len(old) + 1, Len(s)), old, new)
         ELSE <<Head(s)>> \o Replace(Tail(s), old, new)

\* str.split(sep) for a one-character sep
RECURSIVE SplitFrom(_, _, _)
SplitFrom(s, sep, cur) ==
    IF s = <<>> THEN <<cur>>
    ELSE IF Head(s) = sep THEN <<cur>> \o SplitFrom(Tail(s), sep, <<>>)
         ELSE SplitFrom(Tail(s), sep, Append(cur, Head(s)))

Split(s, sep) == SplitFrom(s, sep, <<>>)

Last(seq) == seq[Len(seq)]

\* os.path.join(a, b) on POSIX
PathJoin(a, b) ==
    IF b # <<>> /\ Head(b) = "/" THEN b
    ELSE IF a = <<>> \/ Last(a) = "/" THEN a \o b
         ELSE a \o <<"/">> \o b

IsPrefix(s, t) == Len(s) <= Len(t) /\ SubSeq(t, 1, Len(s)) = s

RECURSIVE Dedupe(_)
Dedupe(seq) ==
    IF seq = <<>> THEN <<>>
    ELSE LET r == Dedupe(SubSeq(seq, 1, Len(seq) - 1))
         IN  IF \E i \in 1..Len(r) : r[i] = Last(seq) THEN r ELSE Append(r, Last(seq))

Range(seq) == {seq[i] : i \in 1..Len(seq)}

\* a dict/file table update, and a lookup with a default
Put(f, k, v) == [x \in DOMAIN f \cup {k} |-> IF x = k THEN v ELSE f[x]]
Get(f, k, d) == IF k \in DOMAIN f THEN f[k] ELSE d

(***************************************************************************)
(* String literals of the scripts                                          *)
(***************************************************************************)
BASE_EXPORT == <<"/","U","s","e","r","s","/","P","e","t","e","T","u","r","c","o","t","t","e","/","D","r","o","p","b","o","x","/","C","u","r","s","o","r","/","b","l","e","n","d","e","r","-","c","o","d","e","3","/","d","a","t","a">>
sIfcProject == <<"I","f","c","P","r","o","j","e","c","t","/">>
sIfcBuildingStorey == <<"I","f","c","B","u","i","l","d","i","n","g","S","t","o","r","e","y">>
sIfcBuildingStoreySlash == <<"I","f","c","B","u","i","l","d","i","n","g","S","t","o","r","e","y","/">>
sSTR == <<"/","S","T","R">>
sINT == <<"/","I","N","T">>
sUnknown == <<"u","n","k","n","o","w","n">>
sBuildingDiscipline == <<"B","u","i","l","d","i","n","g","_","D","i","s","c","i","p","l","i","n","e">>
sProjectUnderscore == <<"P","r","o","j","e","c","t","_">>
sGlbExt == <<".","g","l","b">>
sGlbDir == <<"g","l","b">>

(***************************************************************************)
(* The host scene                                                          *)
(***************************************************************************)
Coll(n, ch, ob) == [name |-> n, children |-> ch, objects |-> ob]
Obj(n, t, l, p) == [name |-> n, type |-> t, loc |-> l, props |-> p]

\* bpy.data.collections.get(name) / name in bpy.data.collections: 0 when absent
CollIndex(cs, n) ==
    IF \E i \in 1..Len(cs) : cs[i].name = n
    THEN CHOOSE i \in 1..Len(cs) : cs[i].name = n
    ELSE 0

CollNames(cs) == [i \in 1..Len(cs) |-> cs[i].name]

\* objects of the collections in todo and of their descendants, each
\* collection's own objects first, then its children in order
RECURSIVE Walk(_, _)
Walk(cs, todo) ==
    IF todo = <<>> THEN <<>>
    ELSE cs[Head(todo)].objects \o Walk(cs, cs[Head(todo)].children \o Tail(todo))

\* Collection.all_objects: every object of the subtree, once
AllObjects(cs, c) == Dedupe(Walk(cs, <<c>>))

(***************************************************************************)
(* sq_extractor.py: the export script                                      *)
(***************************************************************************)
Filters(p, b, d, c) == [project |-> p, building |-> b, discipline |-> d, collection |-> c]

\* x or d
OrElse(x, d) == IF Truthy(x) THEN x ELSE d

\* PROJECT_FILTER.split('_')[-1] if '_' in PROJECT_FILTER else PROJECT_FILTER
ProjectId(p) == IF Contains(<<"_">>, p) THEN Last(Split(p, "_")) ELSE p

IfcProjectNames(cs) ==
    LET IsProject(n) == StartsWith(n, sIfcProject)
    IN  SelectSeq(CollNames(cs), IsProject)

ProjectCollections(cs, p) ==
    LET OfProject(n) == StartsWith(n, sIfcProject \o ProjectId(p) \o <<"/">>)
    IN  SelectSeq(CollNames(cs), OfProject)

get_collections_to_extract(cs, f) ==
    IF Truthy(f.collection)
    THEN IF CollIndex(cs, f.collection) # 0 THEN <<f.collection>> ELSE <<>>
    ELSE LET collection_name == sIfcProject \o ProjectId(f.project) \o <<"/">> \o f.discipline
             collections ==
                 IF Truthy(f.project) /\ Truthy(f.building) /\ Truthy(f.discipline)
                 THEN IF CollIndex(cs, collection_name) # 0 THEN <<collection_name>> ELSE <<>>
                 ELSE IF Truthy(f.project) /\ Truthy(f.discipline)
                 THEN ProjectCollections(cs, f.project)
                 ELSE IF Truthy(f.project)
                 THEN ProjectCollections(cs, f.project)
                 ELSE IfcProjectNames(cs)
             ifc_collections == IfcProjectNames(cs)
         IN  IF collections = <<>>
             THEN IF Len(ifc_collections) = 1 THEN ifc_collections ELSE <<>>
             ELSE collections

project_name(f, coll_name) ==
    IF Truthy(f.project)
    THEN Replace(f.project, <<" ">>, <<"_">>)
    ELSE sProjectUnderscore \o
         (IF Contains(<<"/">>, coll_name) THEN Split(coll_name, "/")[2] ELSE sUnknown)

building_discipline_name(f) ==
    IF Truthy(f.building) /\ Truthy(f.discipline)
    THEN Replace(f.building \o <<"_">> \o f.discipline, <<" ">>, <<"_">>)
    ELSE IF Truthy(f.building) THEN Replace(f.building, <<" ">>, <<"_">>)
    ELSE IF Truthy(f.discipline) THEN Replace(f.discipline, <<" ">>, <<"_">>)
    ELSE sBuildingDiscipline

building_discipline_dir(f, coll_name) ==
    PathJoin(PathJoin(BASE_EXPORT, project_name(f, coll_name)), building_discipline_name(f))

glb_dir(f, coll_name) == PathJoin(building_discipline_dir(f, coll_name), sGlbDir)

\* the storey label of a storey collection
StoreyOf(name) ==
    Replace(Replace(Replace(name, sIfcBuildingStoreySlash, <<>>), sSTR, <<>>), sINT, <<>>)

glb_filename(discipline, storey) ==
    discipline \o <<"_">> \o Replace(storey, <<" ">>, <<"_">>) \o sGlbExt

\* [c for c in coll.children if c.name.startswith('IfcBuildingStorey')]
StoreyChildren(cs, c) ==
    LET IsStorey(k) == StartsWith(cs[k].name, sIfcBuildingStorey)
    IN  SelectSeq(cs[c].children, IsStorey)

\* [obj for obj in storey_coll.all_objects if obj.type == 'MESH']
MeshObjects(cs, os, c) ==
    LET IsMesh(o) == os[o].type = "MESH"
    IN  SelectSeq(AllObjects(cs, c), IsMesh)

sGlobalId == <<"G","l","o","b","a","l","I","d">>

s_RNA_UI == <<"_","R","N","A","_","U","I">>

\* obj.get('GlobalId', '')
GlobalIdOf(o) ==
    IF \E i \in 1..Len(o.props) : o.props[i][1] = sGlobalId
    THEN o.props[CHOOSE i \in 1..Len(o.props) : o.props[i][1] = sGlobalId][2]
    ELSE <<>>

\* the value a TEXT column stores for a str, int, float or bool parameter
SqlText(v) == IF IsStr(v) THEN v ELSE IF v[1] = "bool" THEN (IF v[2] THEN <<"1">> ELSE <<"0">>) ELSE PyStr(v)

\* for each (name, value): if isinstance(value, (str, int, float, bool)):
\* props[name] = str(value); skip excludes the key '_RNA_UI'
RECURSIVE SimpleProps(_, _, _)
SimpleProps(props, pairs, skip) ==
    IF pairs = <<>> THEN props
    ELSE SimpleProps(IF Head(pairs)[1] \notin skip /\ IsSimple(Head(pairs)[2])
                     THEN DictSet(props, Head(pairs)[1], PyStr(Head(pairs)[2]))
                     ELSE props,
                     Tail(pairs), skip)

\* the properties read from obj.BIMObjectProperties: those of every pset of
\* a list that has `properties`, or those of the group itself
RECURSIVE PsetPairs(_)
PsetPairs(psets) ==
    IF psets = <<>> THEN <<>>
    ELSE (IF "properties" \in DOMAIN Head(psets) THEN Head(psets).properties ELSE <<>>)
         \o PsetPairs(Tail(psets))

BimPairs(o) ==
    IF "BIMObjectProperties" \notin DOMAIN o THEN <<>>
    ELSE IF o.BIMObjectProperties.kind = "list" THEN PsetPairs(o.BIMObjectProperties.psets)
    ELSE PsetPairs(<<o.BIMObjectProperties>>)

\* the dict get_ifc_properties returns, as (name, value) pairs
get_ifc_properties(o) == SimpleProps(SimpleProps(<<>>, BimPairs(o), {}), o.props, {s_RNA_UI})

\* delattr(obj, 'BIMObjectProperties') in a try: the attribute goes when the
\* host lets it be deleted, and stays otherwise
clean_bim_properties(o) ==
    IF "BIMObjectProperties" \in DOMAIN o /\ o.BIMObjectProperties.deletable
    THEN [f \in DOMAIN o \ {"BIMObjectProperties"} |-> o[f]]
    ELSE o

\* os.makedirs(path, exist_ok=True): the directory and its missing ancestors
makedirs(dirs, path) ==
    dirs \cup {SubSeq(path, 1, i) : i \in {j \in 2..Len(path) : j = Len(path) \/ path[j + 1] = "/"}}

\* the meshes a glb file of a batch holds
GlbContent(os, batch) == [j \in 1..Len(batch) |-> [name |-> os[batch[j]].name, loc |-> os[batch[j]].loc]]

\* a log write that opens log.txt with mode 'w'
LogWriteTruncating(content, entry) == <<entry>>

\* with open(log_path, 'a') as log: log.write(entry)
LogWrite(content, entry) == Append(content, entry)

LogEntry(k, t, a) == [kind |-> k, text |-> t, at |-> a]

\* with open(index_path, 'w') as f: json.dump(index_list, f)
IndexDump(old, list) == list

\* the ifc_element rows one batch inserts (AUTOINCREMENT ids follow the table)
ElementRows(os, batch, base, storey, discipline, glb_path, now) ==
    [j \in 1..Len(batch) |->
        [id |-> base + j, global_id |-> SqlText(GlobalIdOf(os[batch[j]])),
         name |-> os[batch[j]].name, type |-> os[batch[j]].type,
         storey |-> storey, discipline |-> discipline,
         glb_path |-> glb_path, created_at |-> now]]

\* the ifc_property rows one batch inserts, without their ids
RECURSIVE PropertyPairs(_, _, _)
PropertyPairs(os, batch, base) ==
    IF batch = <<>> THEN <<>>
    ELSE LET props == get_ifc_properties(os[Head(batch)])
         IN  [i \in 1..Len(props) |->
                 [element_id |-> base + 1, name |-> props[i][1], value |-> props[i][2]]]
             \o PropertyPairs(os, Tail(batch), base + 1)

PropertyRows(os, batch, elemBase, propBase) ==
    LET pairs == PropertyPairs(os, batch, elemBase)
    IN  [i \in 1..Len(pairs) |->
            [id |-> propBase + i, element_id |-> pairs[i].element_id,
             name |-> pairs[i].name, value |-> pairs[i].value]]

\* the index.json entries one batch appends to index_list
IndexEntries(os, batch, storey, discipline, glb_path) ==
    [j \in 1..Len(batch) |->
        [name |-> os[batch[j]].name, storey |-> storey, type |-> os[batch[j]].type,
         discipline |-> discipline, glb_path |-> glb_path,
         global_id |-> GlobalIdOf(os[batch[j]]),
         properties |-> get_ifc_properties(os[batch[j]])]]

\* the glb_path recorded for a batch: '' when the glTF export raised
RecordedGlbPath(path, exported) == IF exported THEN path ELSE <<>>

CurColl == toExtract[ci]
CurDir == building_discipline_dir(cfg, CurColl)

\* script start: COLLECTIONS_TO_EXTRACT = get_collections_to_extract()
ExportStart ==
    /\ expPc = "idle"
    /\ runs < MaxRuns
    /\ runs' = runs + 1
    /\ toExtract' = get_collections_to_extract(colls, cfg)
    /\ ci' = 1
    /\ expPc' = "coll"
    /\ expDiscipline' = Unbound
    /\ UNCHANGED <<sceneVars, fsVars, importVars, analysisVars, toolVars, cfg, storeys, si, index_list>>

\* for coll_name in COLLECTIONS_TO_EXTRACT: directories, tables, log header
ExportCollBegin ==
    /\ expPc = "coll"
    /\ ci <= Len(toExtract)
    /\ LET c == CollIndex(colls, CurColl)
           discipline_name == OrElse(cfg.discipline, sUnknown)
       IN  IF c = 0
           THEN /\ ci' = ci + 1
                /\ UNCHANGED <<expPc, storeys, si, index_list, fsElem, fsProp, fsLog, fsDirs>>
           ELSE /\ fsDirs' = makedirs(fsDirs, glb_dir(cfg, CurColl))
                /\ fsElem' = Put(fsElem, CurDir, Get(fsElem, CurDir, <<>>))
                /\ fsProp' = Put(fsProp, CurDir, Get(fsProp, CurDir, <<>>))
                /\ fsLog' = Put(fsLog, CurDir,
                                LogWrite(Get(fsLog, CurDir, <<>>),
                                         LogEntry("extraction", discipline_name, runs)))
                /\ index_list' = <<>>
                /\ storeys' = StoreyChildren(colls, c)
                /\ si' = 1
                /\ expPc' = "storey"
                /\ UNCHANGED ci
    /\ UNCHANGED <<sceneVars, importVars, analysisVars, toolVars, cfg, toExtract, fsGlb, fsIndex, runs,
                   expDiscipline>>

\* one iteration of the storey loop: select, export the glb, index the batch.
\* An INSERT whose global_id is neither str, int, float nor bool raises: the
\* rows of the open transaction are not committed and the script ends
ExportStoreyBatch(exported) ==
    /\ expPc = "storey"
    /\ si <= Len(storeys)
    /\ LET storey == StoreyOf(colls[storeys[si]].name)
           batch == MeshObjects(colls, objs, storeys[si])
           cleaned == [o \in 1..Len(objs) |->
                          IF o \in Range(batch) THEN clean_bim_properties(objs[o]) ELSE objs[o]]
           discipline == OrElse(cfg.discipline, sUnknown)
           path == PathJoin(glb_dir(cfg, CurColl), glb_filename(discipline, storey))
           glb_path == RecordedGlbPath(path, exported)
           log1 == LogWrite(fsLog[CurDir], LogEntry("etape", storey, 0))
           log2 == IF exported
                   THEN LogWrite(log1, LogEntry("export_ok", path, 0))
                   ELSE LogWrite(log1, LogEntry("export_err", storey, 0))
           log3 == LogWrite(log2, LogEntry("batch_done", storey, 0))
           unbindable == {j \in 1..Len(batch) : ~IsSimple(GlobalIdOf(objs[batch[j]]))}
           indexed == IF unbindable = {} THEN batch
                      ELSE SubSeq(batch, 1, (CHOOSE j \in unbindable : \A k \in unbindable : j <= k) - 1)
       IN  IF batch = <<>>
           THEN /\ fsLog' = Put(fsLog, CurDir, log1)
                /\ si' = si + 1
                /\ UNCHANGED <<objs, selected, fsGlb, fsElem, fsProp, index_list, expDiscipline, expPc>>
           ELSE /\ objs' = cleaned
                /\ selected' = Range(batch)
                /\ expDiscipline' = discipline
                /\ fsGlb' = IF exported THEN Put(fsGlb, path, GlbContent(cleaned, batch)) ELSE fsGlb
                /\ index_list' = index_list \o
                        IndexEntries(cleaned, indexed, storey, discipline, glb_path)
                /\ IF unbindable = {}
                   THEN /\ fsElem' = Put(fsElem, CurDir, fsElem[CurDir] \o
                                ElementRows(cleaned, batch, Len(fsElem[CurDir]), storey,
                                            discipline, glb_path, runs))
                        /\ fsProp' = Put(fsProp, CurDir, fsProp[CurDir] \o
                                PropertyRows(cleaned, batch, Len(fsElem[CurDir]), Len(fsProp[CurDir])))
                        /\ fsLog' = Put(fsLog, CurDir, log3)
                        /\ si' = si + 1
                        /\ UNCHANGED expPc
                   ELSE /\ fsLog' = Put(fsLog, CurDir, log2)
                        /\ expPc' = "idle"
                        /\ UNCHANGED <<fsElem, fsProp, si>>
    /\ UNCHANGED <<colls, sceneRoot, importVars, analysisVars, toolVars, cfg, toExtract, ci,
                   storeys, fsIndex, fsDirs, runs>>

\* after the storey loop: index.json, then the closing log line, which reads
\* the global `discipline`: while no batch of this execution has assigned it
\* the read raises NameError and the script ends there
ExportCollEnd ==
    /\ expPc = "storey"
    /\ si > Len(storeys)
    /\ fsIndex' = Put(fsIndex, CurDir, IndexDump(Get(fsIndex, CurDir, <<>>), index_list))
    /\ IF expDiscipline = Unbound
       THEN /\ expPc' = "idle"
            /\ UNCHANGED <<fsLog, ci>>
       ELSE /\ fsLog' = Put(fsLog, CurDir,
                            LogWrite(fsLog[CurDir], LogEntry("done", expDiscipline, 0)))
            /\ ci' = ci + 1
            /\ expPc' = "coll"
    /\ UNCHANGED <<sceneVars, importVars, analysisVars, toolVars, cfg, toExtract, storeys, si, index_list,
                   fsGlb, fsElem, fsProp, fsDirs, runs, expDiscipline>>

\* the collection loop is exhausted: the script ends
ExportFinish ==
    /\ expPc = "coll"
    /\ ci > Len(toExtract)
    /\ expPc' = "idle"
    /\ UNCHANGED <<sceneVars, fsVars, importVars, analysisVars, toolVars, cfg, toExtract, ci, storeys, si,
                   index_list, runs, expDiscipline>>

(***************************************************************************)
(* Scenes and configurations the export is run on                          *)
(***************************************************************************)
sMtl17 == <<"M","t","l","_","1","7">>
sMtlSpace17 == <<"M","t","l"," ","1","7">>
sMDA == <<"M","D","A">>
sDiscSTR == <<"S","T","R">>
sProjSTR == <<"I","f","c","P","r","o","j","e","c","t","/","1","7","/","S","T","R">>
sProjARC == <<"I","f","c","P","r","o","j","e","c","t","/","1","7","/","A","R","C">>
sStoreyN1STR == <<"I","f","c","B","u","i","l","d","i","n","g","S","t","o","r","e","y","/","N","1","/","S","T","R">>
sStoreyN0 == <<"I","f","c","B","u","i","l","d","i","n","g","S","t","o","r","e","y","/","N","0">>
sStoreyN1INT == <<"I","f","c","B","u","i","l","d","i","n","g","S","t","o","r","e","y","/","N","1","/","I","N","T">>
sStoreyN2 == <<"I","f","c","B","u","i","l","d","i","n","g","S","t","o","r","e","y","/","N"," ","2">>
sWalls == <<"W","a","l","l","s">>
sProjZ == <<"I","f","c","P","r","o","j","e","c","t","/","1","7","/","Z">>
sProj16 == <<"I","f","c","P","r","o","j","e","c","t","/","1","6","/","S","T","R">>

\* two discipline collections of project 17; storey N1/STR holds a mesh that
\* is also linked into its child collection, storey N0 holds no mesh
ExportColls ==
    << Coll(sProjSTR, <<3, 4, 7>>, <<>>),
       Coll(sProjARC, <<5>>, <<>>),
       Coll(sStoreyN1STR, <<6>>, <<1>>),
       Coll(sStoreyN0, <<>>, <<3>>),
       Coll(sStoreyN1INT, <<>>, <<4>>),
       Coll(sWalls, <<>>, <<1, 2>>),
       Coll(sStoreyN2, <<>>, <<5>>),
       Coll(sProjZ, <<>>, <<>>) >>

\* an object with the attribute BIMObjectProperties
WithBim(o, bim) == [f \in DOMAIN o \cup {"BIMObjectProperties"} |-> IF f = "BIMObjectProperties" THEN bim ELSE o[f]]

\* W1 has a property group that the host does not let go, one of whose
\* properties a custom property of the same name replaces; W2 has a list of
\* psets that delattr removes; custom properties of every type
ExportObjs ==
    << WithBim(Obj(<<"W","1">>, "MESH", <<0, 0, 0>>,
                   << <<sGlobalId, <<"g","1">>>>, <<s_RNA_UI, Val("list", 0)>>,
                      <<<<"k">>, <<"v">>>> >>),
               [kind |-> "group", deletable |-> FALSE,
                properties |-> << <<<<"k">>, <<"b">>>>, <<<<"p">>, Val("bool", TRUE)>> >>]),
       WithBim(Obj(<<"W","2">>, "MESH", <<1, 0, 0>>,
                   << <<<<"l">>, Val("list", 2)>>, <<<<"f">>, Val("float", 3)>> >>),
               [kind |-> "list", deletable |-> TRUE,
                psets |-> << [properties |-> << <<<<"q">>, <<"x">>>> >>], [name |-> <<"q">>] >>]),
       Obj(<<"E","0">>, "EMPTY", <<0, 0, 0>>, <<>>),
       Obj(<<"S","1">>, "MESH", <<0, 0, 3>>, << <<<<"k">>, <<"v">>>>, <<<<"n">>, Val("int", 5)>> >>),
       Obj(<<"C","1">>, "MESH", <<0, 0, 6>>, <<>>) >>

\* a project whose only storey holds no mesh comes first; the last storey of
\* the second project holds a mesh whose GlobalId is a list
ExportCollsBare ==
    << Coll(sProj16, <<3>>, <<>>),
       Coll(sProjSTR, <<4, 5>>, <<>>),
       Coll(sStoreyN0, <<>>, <<3>>),
       Coll(sStoreyN1STR, <<>>, <<1>>),
       Coll(sStoreyN2, <<>>, <<2, 4>>) >>

ExportObjsBare ==
    [ExportObjs EXCEPT ![4] = Obj(<<"S","1">>, "MESH", <<0, 0, 3>>, << <<sGlobalId, Val("list", 2)>> >>)]

ExportScenes ==
    { [colls |-> ExportColls, objs |-> ExportObjs],
      [colls |-> ExportCollsBare, objs |-> ExportObjsBare] }

ExportConfigs ==
    { Filters(sMtl17, sMDA, sDiscSTR, None),     \* the configuration of the source
      Filters(sMtl17, None, sDiscSTR, None),     \* every discipline of the project
      Filters(None, None, None, None),           \* every project
      Filters(sMtl17, sMDA, sDiscSTR, sProjARC), \* an explicit collection
      Filters(sMtl17, sMDA, None, None),         \* a building, every discipline
      Filters(sMtlSpace17, sMDA, sDiscSTR, sProjSTR) } \* a project name with a space

EmptyDict == [k \in {} |-> k]
\* None where the caller expects a dict
NoneDict == [none |-> TRUE]
NoCall == [op |-> "none", c1 |-> <<>>, c2 |-> <<>>, category |-> <<>>]

\* no CollAligner or CollectionSelector method has been called
AlignIdle ==
    /\ alCall = NoCall
    /\ alResult = EmptyDict
    /\ objsBefore = <<>>
    /\ alCalls = 0

NoSelectCall == [collection_name |-> <<>>, include_hidden |-> FALSE]
NoPatternCall == [pattern |-> <<>>, include_hidden |-> FALSE]
NoTransparencyCall == [percent |-> 0, mat_name_prefix |-> <<>>, collection_name |-> None]
NoColorCall == [op |-> "none", collection_name |-> <<>>, color |-> <<>>, result |-> FALSE]
NoScene == [selected |-> {}, hidden |-> {}, objMats |-> <<>>, materials |-> <<>>]

SelectorIdle ==
    /\ hidden = {}
    /\ selPc = "idle"
    /\ selCall = NoSelectCall
    /\ selAnalysis = EmptyDict
    /\ selObjects = <<>>
    /\ selExpected = 0
    /\ selPolls = 0
    /\ selSlept = 0
    /\ selSeen = 0
    /\ selResult = EmptyDict
    /\ selCalls = 0
    /\ patPc = "idle"
    /\ patCall = NoPatternCall
    /\ patQueue = <<>>
    /\ patResults = <<>>
    /\ patResult = EmptyDict
    /\ trCall = NoTransparencyCall
    /\ trCalls = 0
    /\ colCall = NoColorCall
    /\ colCalls = 0
    /\ sceneBefore = NoScene
    /\ lastTool = "none"

\* no coll_name function has been called
RenameIdle ==
    /\ rnCall = [op |-> "none", collection_name |-> None, discipline |-> None,
                 rename_map |-> <<>>, hierarchy_order |-> <<>>, dry_run |-> FALSE]
    /\ collsBefore = <<>>
    /\ rnCalls = 0

\* the tiling and usage scripts have not run
AnalysisIdle ==
    /\ meshVerts = <<>>
    /\ tiPc = "idle"
    /\ building_bounds = NoneDict
    /\ modules = <<>>
    /\ usPc = "idle"
    /\ usage_data = NoneDict
    /\ total_elements = 0

SelectIdle == SelectorIdle /\ objMats = <<>> /\ materials = <<>>

ToolsIdle == AlignIdle /\ SelectIdle /\ RenameIdle

\* the import script is not running
ImportIdle ==
    /\ impCfg = [project |-> None, building |-> None, discipline |-> None, storey |-> None]
    /\ impPc = "idle"
    /\ index = <<>>
    /\ batch_map = <<>>
    /\ bi = 1
    /\ impRuns = 0

InitExport ==
    /\ AnalysisIdle
    /\ \E scene \in ExportScenes : colls = scene.colls /\ objs = scene.objs
    /\ selected = {}
    /\ cfg \in ExportConfigs
    /\ expPc = "idle"
    /\ toExtract = <<>>
    /\ ci = 1
    /\ storeys = <<>>
    /\ si = 1
    /\ index_list = <<>>
    /\ expDiscipline = Unbound
    /\ fsGlb = <<>>
    /\ fsElem = <<>>
    /\ fsProp = <<>>
    /\ fsIndex = <<>>
    /\ fsLog = <<>>
    /\ fsDirs = {}
    /\ runs = 0
    /\ sceneRoot = [children |-> <<1, 2>>, objects |-> <<>>]
    /\ ImportIdle
    /\ ToolsIdle

NextExport ==
    \/ ExportStart
    \/ ExportCollBegin
    \/ \E exported \in BOOLEAN : ExportStoreyBatch(exported)
    \/ ExportCollEnd
    \/ ExportFinish

SpecExport == InitExport /\ [][NextExport]_vars

(***************************************************************************)
(* Properties of the export                                                *)
(***************************************************************************)
ElementRowsOnDisk == UNION {Range(fsElem[d]) : d \in DOMAIN fsElem}
IndexEntriesOnDisk == UNION {Range(fsIndex[d]) : d \in DOMAIN fsIndex}

\* the fields of an ifc_element row that describe the element
ElementKey(r) == <<r.global_id, r.name, r.type, r.storey, r.discipline, r.glb_path>>

NoDuplicateElement(rows) ==
    \A i, j \in 1..Len(rows) : ElementKey(rows[i]) = ElementKey(rows[j]) => i = j

\* C1: every ifc_element row and every index.json entry names, in glb_path,
\* a glb file that the export wrote (never the empty path, never a missing
\* file), also when the glTF export of a storey batch raised.
C1_RecordsReferenceWrittenGlb ==
    /\ \A r \in ElementRowsOnDisk : r.glb_path # <<>> /\ r.glb_path \in DOMAIN fsGlb
    /\ \A e \in IndexEntriesOnDisk : e.glb_path # <<>> /\ e.glb_path \in DOMAIN fsGlb

\* C2: a record written to bim_library.sqlite or to index.json is never
\* modified, removed or duplicated by a later step of this or a later run:
\* both files only grow at the end, and no element appears twice in the table.
C2_RecordsImmutable ==
    [][ /\ \A d \in DOMAIN fsIndex : IsPrefix(fsIndex[d], fsIndex'[d])
        /\ \A d \in DOMAIN fsElem :
              IsPrefix(fsElem[d], fsElem'[d]) /\ NoDuplicateElement(fsElem'[d]) ]_vars

\* C10: log.txt is append-only: whatever the export does (any run, any storey
\* batch, glb export succeeded or failed), the content of every log.txt before
\* the step is a prefix of its content after the step.
C10_LogAppendOnly ==
    [][ \A d \in DOMAIN fsLog : d \in DOMAIN fsLog' /\ IsPrefix(fsLog[d], fsLog'[d]) ]_vars

\* a second run has written to a log that already records a failed glb export
C10_Witness ==
    \E d \in DOMAIN fsLog :
        /\ \E i \in 1..Len(fsLog[d]) : fsLog[d][i].kind = "export_err"
        /\ \E i \in 1..Len(fsLog[d]) : fsLog[d][i].kind = "export_ok"
        /\ Cardinality({i \in 1..Len(fsLog[d]) : fsLog[d][i].kind = "extraction"}) >= 2

\* the rows an export step adds to the ifc_element tables
NewElementRows == ElementRowsOnDisk' \ ElementRowsOnDisk

\* C11: an export run writes one glb blob per storey batch: a batch whose
\* glb was exported records a glb_path that no other batch of the same run
\* (rows with the same created_at) has recorded, so no batch overwrites the
\* blob of another storey collection.
C11_OneBlobPerBatch ==
    [][ \A r \in NewElementRows :
            r.glb_path # <<>> =>
                ~ \E q \in ElementRowsOnDisk :
                      q.created_at = r.created_at /\ q.glb_path = r.glb_path ]_vars

(***************************************************************************)
(* sq_import.py: the import script                                         *)
(***************************************************************************)
BASE_LIBRARY == BASE_EXPORT
sNone == <<"N","o","n","e">>
sSuffixDigits == <<"1","2","3","4","5","6","7","8","9">>

ImportFilters(p, b, d, s) == [project |-> p, building |-> b, discipline |-> d, storey |-> s]

\* a value formatted by an f-string
Str(x) == IF x = None THEN sNone ELSE x

PROJECT_PATH(f) == PathJoin(BASE_LIBRARY, f.project)

BUILDING_DISCIPLINE_PATH(f) ==
    PathJoin(PROJECT_PATH(f), Str(f.building) \o <<"_">> \o Str(f.discipline))

GLB_DIR(f) == PathJoin(BUILDING_DISCIPLINE_PATH(f), sGlbDir)

\* os.path.isabs, os.path.basename
IsAbs(p) == p # <<>> /\ Head(p) = "/"
BaseName(p) == Last(Split(p, "/"))

\* os.path.exists: a glb file, or a directory (with or without a final '/')
PathExists(p, files, dirs) ==
    \/ p \in files
    \/ p \in dirs
    \/ p # <<>> /\ Last(p) = "/" /\ SubSeq(p, 1, Len(p) - 1) \in dirs

\* the storey filter compared with == instead of `in`
KeepExactStorey(f, item) ==
    /\ ~(Truthy(f.storey) /\ f.storey # item.storey)
    /\ ~(Truthy(f.discipline) /\ ~Contains(f.discipline, item.discipline))

\* an index item is skipped unless it passes both filters
Keep(f, item) ==
    /\ ~(Truthy(f.storey) /\ ~Contains(f.storey, item.storey))
    /\ ~(Truthy(f.discipline) /\ ~Contains(f.discipline, item.discipline))

BatchKey(item) == <<item.discipline, item.storey, item.glb_path>>

\* batch_map[key] = [item]: the list is replaced instead of extended
AddToBatchOverwriting(bm, key, item) ==
    IF \E k \in 1..Len(bm) : bm[k].key = key
    THEN [k \in 1..Len(bm) |->
            IF bm[k].key = key THEN [bm[k] EXCEPT !.items = <<item>>] ELSE bm[k]]
    ELSE Append(bm, [key |-> key, items |-> <<item>>])

\* batch_map[key].append(item), creating the list on the key's first item
AddToBatch(bm, key, item) ==
    IF \E k \in 1..Len(bm) : bm[k].key = key
    THEN [k \in 1..Len(bm) |->
            IF bm[k].key = key THEN [bm[k] EXCEPT !.items = Append(@, item)] ELSE bm[k]]
    ELSE Append(bm, [key |-> key, items |-> <<item>>])

\* the grouping loop over the index
RECURSIVE GroupIndex(_, _, _)
GroupIndex(items, f, bm) ==
    IF items = <<>> THEN bm
    ELSE IF Keep(f, Head(items))
         THEN GroupIndex(Tail(items), f, AddToBatch(bm, BatchKey(Head(items)), Head(items)))
         ELSE GroupIndex(Tail(items), f, bm)

clean_storey(storey) ==
    Replace(Replace(Replace(storey, sIfcBuildingStoreySlash, <<>>), sSTR, <<>>), sINT, <<>>)

coll_name(f, discipline, storey) ==
    Str(f.building) \o <<"/">> \o discipline \o <<"/">> \o clean_storey(storey)

\* the name the host gives a new datablock: the requested name, or the first
\* free name.001, name.002, ... when it is taken
UniqueName(names, n) ==
    IF n \notin names THEN n
    ELSE LET Cand(k) == n \o <<".","0","0">> \o <<sSuffixDigits[k]>>
         IN  Cand(CHOOSE k \in 1..9 : Cand(k) \notin names /\
                                      \A j \in 1..(k - 1) : Cand(j) \in names)

\* bpy.data.collections.new(name)
DataCollectionsNew(cs, n) == Append(cs, Coll(UniqueName(Range(CollNames(cs)), n), <<>>, <<>>))

\* a new collection is requested without looking the name up first
WithNewCollection(cs, n) == DataCollectionsNew(cs, n)

\* the container after the importer has obtained the host collection of a batch
WithHostCollection(cs, n) ==
    IF CollIndex(cs, n) = 0 THEN DataCollectionsNew(cs, n) ELSE cs

\* the path the importer loads: relative paths are looked up in GLB_DIR
ResolvedGlbPath(f, glb_path) ==
    IF ~IsAbs(glb_path) THEN PathJoin(GLB_DIR(f), BaseName(glb_path)) ELSE glb_path

\* bpy.ops.import_scene.gltf: one new mesh object per mesh of the file,
\* whatever the index says about the batch
RECURSIVE ImportedObjects(_, _)
ImportedObjects(content, names) ==
    IF content = <<>> THEN <<>>
    ELSE LET n == UniqueName(names, Head(content).name)
         IN  <<Obj(n, "MESH", Head(content).loc, <<>>)>>
             \o ImportedObjects(Tail(content), names \cup {n})

ObjNames(os) == {os[i].name : i \in 1..Len(os)}

\* script start: the index is read and grouped, or the script exits
ImportStart ==
    /\ impPc = "idle"
    /\ impRuns < MaxImportRuns
    /\ impRuns' = impRuns + 1
    /\ IF BUILDING_DISCIPLINE_PATH(impCfg) \notin DOMAIN fsIndex
       THEN UNCHANGED <<impPc, index, batch_map, bi>>
       ELSE /\ index' = fsIndex[BUILDING_DISCIPLINE_PATH(impCfg)]
            /\ batch_map' = GroupIndex(index', impCfg, <<>>)
            /\ bi' = 1
            /\ impPc' = "batches"
    /\ UNCHANGED <<sceneVars, fsVars, exportVars, analysisVars, toolVars, impCfg>>

\* one iteration of the batch loop
ImportBatch(raises) ==
    /\ impPc = "batches"
    /\ bi <= Len(batch_map)
    /\ LET b == batch_map[bi]
           name == coll_name(impCfg, b.key[1], b.key[2])
           created == CollIndex(colls, name) = 0
           colls1 == WithHostCollection(colls, name)
           new_coll == IF created THEN Len(colls1) ELSE CollIndex(colls, name)
           glb_path == ResolvedGlbPath(impCfg, b.key[3])
           imported == ImportedObjects(Get(fsGlb, glb_path, <<>>), ObjNames(objs))
           ids == [k \in 1..Len(imported) |-> Len(objs) + k]
       IN  /\ sceneRoot' = IF created
                           THEN [sceneRoot EXCEPT !.children = Append(@, new_coll)]
                           ELSE sceneRoot
           /\ IF Truthy(glb_path) /\ PathExists(glb_path, DOMAIN fsGlb, fsDirs)
                 /\ glb_path \in DOMAIN fsGlb /\ ~raises
              THEN /\ objs' = objs \o imported
                   /\ selected' = Range(ids)
                   /\ colls' = [colls1 EXCEPT ![new_coll].objects = @ \o ids]
              ELSE /\ colls' = colls1
                   /\ UNCHANGED <<objs, selected>>
    /\ bi' = bi + 1
    /\ UNCHANGED <<fsVars, exportVars, analysisVars, toolVars, impCfg, impPc, index, batch_map, impRuns>>

\* the batch loop is exhausted: the script ends
ImportFinish ==
    /\ impPc = "batches"
    /\ bi > Len(batch_map)
    /\ impPc' = "idle"
    /\ UNCHANGED <<sceneVars, fsVars, exportVars, analysisVars, toolVars, impCfg, index, batch_map, bi, impRuns>>

\* the export script is not running
ExportIdle ==
    /\ cfg = Filters(None, None, None, None)
    /\ expPc = "idle"
    /\ toExtract = <<>>
    /\ ci = 1
    /\ storeys = <<>>
    /\ si = 1
    /\ index_list = <<>>
    /\ runs = 0
    /\ expDiscipline = Unbound

(***************************************************************************)
(* Index files and scenes the import is run on                             *)
(***************************************************************************)
sN1 == <<"N","1">>
sN10 == <<"N","1","0">>
sN1INT == <<"N","1","/","I","N","T">>
sN2 == <<"N"," ","2">>
sDiscARC == <<"A","R","C">>
sMdaStrN1 == <<"M","D","A","/","S","T","R","/","N","1">>
sRelGlb == <<"S","T","R","_","N","1",".","g","l","b">>

ImportConfigs ==
    { ImportFilters(sMtl17, sMDA, sDiscSTR, sN1),
      ImportFilters(sMtl17, sMDA, sDiscSTR, None),
      ImportFilters(sMtl17, sMDA, None, None),
      ImportFilters(sMtl17, sMDA, <<>>, <<>>) }

GlbN1(f) == PathJoin(GLB_DIR(f), sRelGlb)
GlbN10(f) == PathJoin(GLB_DIR(f), <<"S","T","R","_","N","1","0",".","g","l","b">>)

IndexItem(n, s, d, g) ==
    [name |-> n, storey |-> s, type |-> "MESH", discipline |-> d, glb_path |-> g,
     global_id |-> <<>>, properties |-> <<>>]

\* entries an index.json may hold: two elements of one batch, a storey whose
\* name contains another storey's name, another discipline with a failed glb
\* export, a relative glb path of a storey that maps to the same collection,
\* and a storey that the storey filter rejects
ImportItems(f) ==
    { IndexItem(<<"W","1">>, sN1, sDiscSTR, GlbN1(f)),
      IndexItem(<<"W","2">>, sN1, sDiscSTR, GlbN1(f)),
      IndexItem(<<"S","1">>, sN10, sDiscSTR, GlbN10(f)),
      IndexItem(<<"C","1">>, sN1INT, sDiscARC, <<>>),
      IndexItem(<<"W","3">>, sStoreyN1STR, sDiscSTR, sRelGlb),
      IndexItem(<<"R","1">>, sN2, sDiscSTR, GlbN1(f)) }

\* what the glb file of storey N1 holds: a mesh that index entries name and
\* one that no entry names
GlbContents ==
    { << [name |-> <<"W","1">>, loc |-> <<0, 0, 0>>], [name |-> <<"X","9">>, loc |-> <<2, 0, 0>>] >> }

BoundedSeq(S, n) == UNION {[1..k -> S] : k \in 0..n}

InitImport ==
    /\ AnalysisIdle
    /\ impCfg \in ImportConfigs
    /\ impPc = "idle"
    /\ index = <<>>
    /\ batch_map = <<>>
    /\ bi = 1
    /\ impRuns = 0
    /\ ExportIdle
    /\ ToolsIdle
    /\ objs = <<>>
    /\ selected = {}
    /\ \E withColl \in BOOLEAN :
          /\ colls = IF withColl THEN <<Coll(sMdaStrN1, <<>>, <<>>)>> ELSE <<>>
          /\ sceneRoot = [children |-> IF withColl THEN <<1>> ELSE <<>>, objects |-> <<>>]
    /\ fsElem = <<>>
    /\ fsProp = <<>>
    /\ fsLog = <<>>
    /\ \/ /\ fsIndex = <<>>
          /\ fsGlb = <<>>
          /\ fsDirs = {}
       \/ /\ \E idx \in BoundedSeq(ImportItems(impCfg), MaxIndexLen) :
                fsIndex = Put(<<>>, BUILDING_DISCIPLINE_PATH(impCfg), idx)
          /\ fsGlb \in {<<>>} \cup {Put(<<>>, GlbN1(impCfg), content) : content \in GlbContents}
          /\ fsDirs = makedirs({}, GLB_DIR(impCfg))

NextImport ==
    \/ ImportStart
    \/ \E raises \in BOOLEAN : ImportBatch(raises)
    \/ ImportFinish

SpecImport == InitImport /\ [][NextImport]_vars

(***************************************************************************)
(* Properties of the import                                                *)
(***************************************************************************)
Unset(x) == x = None \/ x = <<>>

\* the filter condition as the specification states it
PassesFilters(it) ==
    /\ Unset(impCfg.storey) \/ Contains(impCfg.storey, it.storey)
    /\ Unset(impCfg.discipline) \/ Contains(impCfg.discipline, it.discipline)

RECURSIVE ConcatBatches(_)
ConcatBatches(bm) ==
    IF bm = <<>> THEN <<>> ELSE Head(bm).items \o ConcatBatches(Tail(bm))

Count(seq, x) == Cardinality({i \in 1..Len(seq) : seq[i] = x})

Grouped == impPc = "batches"

\* C3: the grouping is lossless. Every index item that passes the filters is
\* in exactly one batch, the one keyed by its own (discipline, storey,
\* glb_path); each batch lists its items in index order; and with both filters
\* unset the concatenation of the batches is a permutation of the index.
C3_GroupingLossless ==
    Grouped =>
      /\ \A i \in 1..Len(index) : PassesFilters(index[i]) =>
            LET holding == {k \in 1..Len(batch_map) :
                               \E j \in 1..Len(batch_map[k].items) :
                                   batch_map[k].items[j] = index[i]}
            IN  /\ Cardinality(holding) = 1
                /\ \A k \in holding :
                      batch_map[k].key =
                          <<index[i].discipline, index[i].storey, index[i].glb_path>>
      /\ \A k \in 1..Len(batch_map) :
            LET Mine(it) == /\ PassesFilters(it)
                            /\ <<it.discipline, it.storey, it.glb_path>> = batch_map[k].key
            IN  batch_map[k].items = SelectSeq(index, Mine)
      /\ (Unset(impCfg.storey) /\ Unset(impCfg.discipline)) =>
            /\ Len(ConcatBatches(batch_map)) = Len(index)
            /\ \A i \in 1..Len(index) :
                  Count(ConcatBatches(batch_map), index[i]) = Count(index, index[i])

\* an index of three entries was grouped into two batches, one of two items
C3_Witness ==
    /\ Grouped
    /\ Len(index) = 3
    /\ Len(batch_map) = 2
    /\ \E k \in 1..Len(batch_map) : Len(batch_map[k].items) = 2

\* C4: an index item is kept (it is in some batch) if and only if the storey
\* filter is unset or a substring of its storey, and the discipline filter is
\* unset or a substring of its discipline; nothing else decides.
C4_FilterBySubstring ==
    Grouped =>
      \A i \in 1..Len(index) :
          (\E j \in 1..Len(ConcatBatches(batch_map)) :
               ConcatBatches(batch_map)[j] = index[i])
          <=> PassesFilters(index[i])

\* with both filters set, one item was kept whose storey properly contains the
\* storey filter, one was dropped by the storey filter and one by the
\* discipline filter
C4_Witness ==
    /\ Grouped
    /\ ~Unset(impCfg.storey) /\ ~Unset(impCfg.discipline)
    /\ \E i \in 1..Len(index) :
          PassesFilters(index[i]) /\ index[i].storey # impCfg.storey
    /\ \E i \in 1..Len(index) : ~Contains(impCfg.storey, index[i].storey)
    /\ \E i \in 1..Len(index) :
          Contains(impCfg.storey, index[i].storey)
              /\ ~Contains(impCfg.discipline, index[i].discipline)

\* the storey labels of the index entries with 'IfcBuildingStorey/', '/STR'
\* and '/INT' removed, written out
CleanedStorey(s) ==
    CASE s = sN1 -> sN1
      [] s = sN10 -> sN10
      [] s = sN1INT -> sN1
      [] s = sStoreyN1STR -> sN1
      [] s = sN2 -> sN2

ExpectedCollName(key) == impCfg.building \o <<"/">> \o key[1] \o <<"/">> \o CleanedStorey(key[2])

\* C5: once a batch is processed, a collection named
\* <BUILDING_FILTER>/<discipline>/<cleaned storey> exists; collection names are
\* unique; and the importer has created no collection beyond one per such
\* name (an existing collection is reused, over any number of runs).
C5_HostCollectionPerBatch ==
    /\ Grouped => \A k \in 1..(bi - 1) :
                     \E c \in 1..Len(colls) : colls[c].name = ExpectedCollName(batch_map[k].key)
    /\ \A c, d \in 1..Len(colls) : colls[c].name = colls[d].name => c = d
    /\ \A c \in 1..Len(colls) :
          \/ colls[c].name = sMdaStrN1
          \/ \E k \in 1..Len(batch_map) : colls[c].name = ExpectedCollName(batch_map[k].key)

\* in a second run, two processed batches share one host collection
C5_Witness ==
    /\ Grouped
    /\ impRuns = 2
    /\ bi > Len(batch_map)
    /\ \E j, k \in 1..Len(batch_map) :
          j # k /\ ExpectedCollName(batch_map[j].key) = ExpectedCollName(batch_map[k].key)

(***************************************************************************)
(* bim_tools/coll_aligner.py: CollAligner                                  *)
(*                                                                         *)
(* Coordinates are even integers, so that (min + max) / 2 is exact;        *)
(* float('inf') is PosInf, with the arithmetic of IEEE infinities; a       *)
(* distance d = math.sqrt(q) is carried as its square q (fields *_sq).     *)
(***************************************************************************)
PosInf == 1000000000
NegInf == 0 - PosInf

IsInf(a) == a = PosInf \/ a = NegInf
FMin(a, b) == IF a < b THEN a ELSE b
FMax(a, b) == IF a > b THEN a ELSE b
FSub(a, b) ==
    IF a = PosInf \/ (b = NegInf /\ a # NegInf) THEN PosInf
    ELSE IF a = NegInf \/ b = PosInf THEN NegInf
    ELSE a - b
FAbs(a) == IF IsInf(a) THEN PosInf ELSE IF a < 0 THEN 0 - a ELSE a
FSq(a) == IF IsInf(a) THEN PosInf ELSE a * a
FAdd(a, b) == IF IsInf(a) \/ IsInf(b) THEN PosInf ELSE a + b

SetMin(S) == CHOOSE x \in S : \A y \in S : x <= y

sIfc == <<"I","f","c">>
sIfcSite == <<"I","f","c","S","i","t","e">>
sIfcBuilding == <<"I","f","c","B","u","i","l","d","i","n","g">>
sCollectionQuote == <<"C","o","l","l","e","c","t","i","o","n"," ","'">>
sNonTrouvee == <<"'"," ","n","o","n"," ","t","r","o","u","v","é","e">>
sAucunPoint == <<"A","u","c","u","n"," ","p","o","i","n","t"," ","d","e"," ","r","é","f","é","r","e","n","c","e"," ","'">>
sTrouveDans == <<"'"," ","t","r","o","u","v","é"," ","d","a","n","s"," ">>

CenterThreshold == 100
AxisThreshold == 50
DisplacementThreshold == 1
CoherenceThreshold == 5

\* a lookup that falls back to the first collection instead of None
find_collection_or_first(cs, n) ==
    LET exact == {i \in 1..Len(cs) : cs[i].name = n}
        pattern == {i \in 1..Len(cs) : Contains(n, cs[i].name)}
    IN  IF exact # {} THEN SetMin(exact)
        ELSE IF pattern # {} THEN SetMin(pattern)
        ELSE 1

\* a lookup that takes the first name containing n, equal or not
find_collection_by_pattern(cs, n) ==
    LET pattern == {i \in 1..Len(cs) : Contains(n, cs[i].name)}
    IN  IF pattern # {} THEN SetMin(pattern) ELSE 0

\* CollAligner._find_collection: the index of the collection, 0 for None
find_collection(cs, n) ==
    LET exact == {i \in 1..Len(cs) : cs[i].name = n}
        pattern == {i \in 1..Len(cs) : Contains(n, cs[i].name)}
    IN  IF exact # {} THEN SetMin(exact)
        ELSE IF pattern # {} THEN SetMin(pattern)
        ELSE 0

extract_ifc_category(object_name) ==
    IF Contains(sIfc, object_name)
    THEN LET parts == Split(object_name, "/")
             hits == {i \in 1..Len(parts) : StartsWith(parts[i], sIfc)}
         IN  IF hits # {} THEN parts[SetMin(hits)] ELSE None
    ELSE None

extract_specific_name(object_name) ==
    IF Contains(<<"/">>, object_name)
    THEN LET specific_part == Split(object_name, "/")[2]
         IN  IF Contains(<<".">>, specific_part)
             THEN Split(specific_part, ".")[1]
             ELSE specific_part
    ELSE object_name

create_error_result(error_message) ==
    [success |-> FALSE, error |-> error_message,
     collection1 |-> EmptyDict, collection2 |-> EmptyDict,
     distance_analysis |-> EmptyDict, alignment_recommendations |-> <<>>]

NotFoundMessage(n) == sCollectionQuote \o n \o sNonTrouvee

\* bool(obj.location): a mathutils.Vector has a length of 3 and no __bool__
LocationTruthy(loc) == Len(loc) # 0

RECURSIVE FoldMin(_, _, _, _)
FoldMin(os, walk, axis, acc) ==
    IF walk = <<>> THEN acc
    ELSE FoldMin(os, Tail(walk), axis,
                 IF LocationTruthy(os[Head(walk)].loc)
                 THEN FMin(acc, os[Head(walk)].loc[axis]) ELSE acc)

\* a maximum that looks at the EMPTY objects only
RECURSIVE FoldMaxOfEmpties(_, _, _, _)
FoldMaxOfEmpties(os, walk, axis, acc) ==
    IF walk = <<>> THEN acc
    ELSE FoldMaxOfEmpties(os, Tail(walk), axis,
                          IF os[Head(walk)].type = "EMPTY"
                          THEN FMax(acc, os[Head(walk)].loc[axis]) ELSE acc)

RECURSIVE FoldMax(_, _, _, _)
FoldMax(os, walk, axis, acc) ==
    IF walk = <<>> THEN acc
    ELSE FoldMax(os, Tail(walk), axis,
                 IF LocationTruthy(os[Head(walk)].loc)
                 THEN FMax(acc, os[Head(walk)].loc[axis]) ELSE acc)

\* d[key] = d.get(key, 0) + 1 on a dict kept as (key, count) pairs
CountInto(d, key) ==
    IF \E i \in 1..Len(d) : d[i][1] = key
    THEN [i \in 1..Len(d) |-> IF d[i][1] = key THEN <<key, d[i][2] + 1>> ELSE d[i]]
    ELSE Append(d, <<key, 1>>)

RECURSIVE CountCategories(_, _, _)
CountCategories(os, walk, d) ==
    IF walk = <<>> THEN d
    ELSE LET cat == extract_ifc_category(os[Head(walk)].name)
         IN  CountCategories(os, Tail(walk), IF Truthy(cat) THEN CountInto(d, cat) ELSE d)

ObjectEntry(o) ==
    [name |-> o.name, location |-> o.loc, ifc_category |-> extract_ifc_category(o.name)]

IsKeyReference(e) ==
    \/ Contains(sIfcBuildingStorey, e.name)
    \/ Contains(sIfcSite, e.name)
    \/ Contains(sIfcBuilding, e.name)

analyze_collection_positions(cs, os, c, label) ==
    LET walk == Walk(cs, <<c>>)
        IsEmpty(o) == os[o].type = "EMPTY"
        IsMesh(o) == os[o].type = "MESH"
        empties == SelectSeq(walk, IsEmpty)
        meshes == SelectSeq(walk, IsMesh)
        empty_objects == [i \in 1..Len(empties) |-> ObjectEntry(os[empties[i]])]
        min == [i \in 1..3 |-> FoldMin(os, walk, i, PosInf)]
        max == [i \in 1..3 |-> FoldMax(os, walk, i, NegInf)]
        some == Len(walk) > 0
    IN  [collection_name |-> cs[c].name,
         label |-> label,
         total_objects |-> Len(walk),
         empty_objects |-> empty_objects,
         mesh_objects |-> [i \in 1..Len(meshes) |-> ObjectEntry(os[meshes[i]])],
         position_stats |->
            [min |-> min, max |-> max,
             center |-> IF some THEN [i \in 1..3 |-> (min[i] + max[i]) \div 2]
                        ELSE <<0, 0, 0>>,
             bounds |-> [width |-> IF some THEN max[1] - min[1] ELSE 0,
                         height |-> IF some THEN max[3] - min[3] ELSE 0,
                         depth |-> IF some THEN max[2] - min[2] ELSE 0]],
         ifc_categories |-> CountCategories(os, walk, <<>>),
         key_reference_points |-> SelectSeq(empty_objects, IsKeyReference)]

DistSq(p, q) == (p[1] - q[1]) * (p[1] - q[1]) + (p[2] - q[2]) * (p[2] - q[2])
                + (p[3] - q[3]) * (p[3] - q[3])

\* the reference-point pairs of equal category, in the order of the two loops
RECURSIVE ReferencePairs(_, _, _)
ReferencePairs(refs1, refs2, j) ==
    IF refs1 = <<>> THEN <<>>
    ELSE IF j > Len(refs2) THEN ReferencePairs(Tail(refs1), refs2, 1)
    ELSE (IF Head(refs1).ifc_category = refs2[j].ifc_category
          THEN <<[category |-> Head(refs1).ifc_category, object1 |-> Head(refs1).name,
                  object2 |-> refs2[j].name,
                  distance_sq |-> DistSq(Head(refs1).location, refs2[j].location)]>>
          ELSE <<>>)
         \o ReferencePairs(refs1, refs2, j + 1)

\* the gap of an axis, seen from the first box only
AxisGapSqOneSided(min1, max1, min2, max2, i) ==
    IF max1[i] < min2[i] THEN FSq(FAbs(FSub(max1[i], min2[i]))) ELSE 0

AxisGapSq(min1, max1, min2, max2, i) ==
    IF max1[i] < min2[i] \/ max2[i] < min1[i]
    THEN FSq(FMin(FAbs(FSub(max1[i], min2[i])), FAbs(FSub(max2[i], min1[i]))))
    ELSE 0

AxisSpanSq(min1, max1, min2, max2, i) ==
    FSq(FMax(FAbs(FSub(max1[i], min2[i])), FAbs(FSub(max2[i], min1[i]))))

calculate_collections_distance(analysis1, analysis2) ==
    LET center1 == analysis1.position_stats.center
        center2 == analysis2.position_stats.center
        min1 == analysis1.position_stats.min
        max1 == analysis1.position_stats.max
        min2 == analysis2.position_stats.min
        max2 == analysis2.position_stats.max
        center_distance_sq == DistSq(center1, center2)
        axis == [x |-> FAbs(center1[1] - center2[1]),
                 y |-> FAbs(center1[2] - center2[2]),
                 z |-> FAbs(center1[3] - center2[3])]
    IN  [center_distance_sq |-> center_distance_sq,
         min_distance_sq |->
            FAdd(FAdd(AxisGapSq(min1, max1, min2, max2, 1),
                      AxisGapSq(min1, max1, min2, max2, 2)),
                 AxisGapSq(min1, max1, min2, max2, 3)),
         max_distance_sq |->
            FAdd(FAdd(AxisSpanSq(min1, max1, min2, max2, 1),
                      AxisSpanSq(min1, max1, min2, max2, 2)),
                 AxisSpanSq(min1, max1, min2, max2, 3)),
         axis_distances |-> axis,
         alignment_issues |->
            (IF center_distance_sq > CenterThreshold * CenterThreshold
             THEN <<"centers">> ELSE <<>>)
            \o (IF axis.z > AxisThreshold THEN <<"height">> ELSE <<>>),
         reference_point_distances |->
            ReferencePairs(analysis1.key_reference_points,
                           analysis2.key_reference_points, 1)]

\* recommendations that are issued from the thresholds on
recommendations_from_threshold(distance_analysis) ==
    LET recommendations ==
            (IF distance_analysis.center_distance_sq >= CenterThreshold * CenterThreshold
             THEN <<"centers">> ELSE <<>>)
            \o (IF distance_analysis.axis_distances.z >= AxisThreshold
                THEN <<"vertical">> ELSE <<>>)
            \o (IF distance_analysis.axis_distances.x >= AxisThreshold
                THEN <<"x">> ELSE <<>>)
            \o (IF distance_analysis.axis_distances.y >= AxisThreshold
                THEN <<"y">> ELSE <<>>)
    IN  IF recommendations = <<>> THEN <<"aligned">> ELSE recommendations

generate_alignment_recommendations(distance_analysis) ==
    LET recommendations ==
            (IF distance_analysis.center_distance_sq > CenterThreshold * CenterThreshold
             THEN <<"centers">> ELSE <<>>)
            \o (IF distance_analysis.axis_distances.z > AxisThreshold
                THEN <<"vertical">> ELSE <<>>)
            \o (IF distance_analysis.axis_distances.x > AxisThreshold
                THEN <<"x">> ELSE <<>>)
            \o (IF distance_analysis.axis_distances.y > AxisThreshold
                THEN <<"y">> ELSE <<>>)
    IN  IF recommendations = <<>> THEN <<"aligned">> ELSE recommendations

analyze_collections_distance(cs, os, collection1_name, collection2_name) ==
    LET collection1 == find_collection(cs, collection1_name)
        collection2 == find_collection(cs, collection2_name)
        analysis1 == analyze_collection_positions(cs, os, collection1, "Collection 1")
        analysis2 == analyze_collection_positions(cs, os, collection2, "Collection 2")
        distance_analysis == calculate_collections_distance(analysis1, analysis2)
    IN  IF collection1 = 0 THEN create_error_result(NotFoundMessage(collection1_name))
        ELSE IF collection2 = 0 THEN create_error_result(NotFoundMessage(collection2_name))
        ELSE [success |-> TRUE,
              collection1 |-> [name |-> collection1_name, analysis |-> analysis1],
              collection2 |-> [name |-> collection2_name, analysis |-> analysis2],
              distance_analysis |-> distance_analysis,
              alignment_recommendations |->
                  generate_alignment_recommendations(distance_analysis)]

\* find_reference_points: the EMPTY objects of the subtree whose category is
\* reference_category, in traversal order
find_reference_points(cs, os, c, reference_category) ==
    LET IsReference(o) == /\ os[o].type = "EMPTY"
                          /\ extract_ifc_category(os[o].name) = reference_category
        found == SelectSeq(Walk(cs, <<c>>), IsReference)
    IN  [i \in 1..Len(found) |->
            [name |-> os[found[i]].name,
             specific_name |-> extract_specific_name(os[found[i]].name),
             location |-> os[found[i]].loc,
             ifc_category |-> extract_ifc_category(os[found[i]].name)]]

\* the lists left in the order of the search
KeepOrder(points) == points

\* the matches left in the order of collection 1's dictionary
KeepMatchOrder(matches) == matches

\* list.sort(key=lambda x: x['location'][2]): a stable sort
RECURSIVE SortByZ(_)
SortByZ(points) ==
    IF points = <<>> THEN <<>>
    ELSE LET sorted == SortByZ(SubSeq(points, 1, Len(points) - 1))
             x == Last(points)
             k == Cardinality({i \in 1..Len(sorted) : sorted[i].location[3] <= x.location[3]})
         IN  SubSeq(sorted, 1, k) \o <<x>> \o SubSeq(sorted, k + 1, Len(sorted))

\* list.sort(key=lambda x: x['distance']): a stable sort
RECURSIVE SortByDistance(_)
SortByDistance(matches) ==
    IF matches = <<>> THEN <<>>
    ELSE LET sorted == SortByDistance(SubSeq(matches, 1, Len(matches) - 1))
             x == Last(matches)
             k == Cardinality({i \in 1..Len(sorted) : sorted[i].distance <= x.distance})
         IN  SubSeq(sorted, 1, k) \o <<x>> \o SubSeq(sorted, k + 1, Len(sorted))

\* the reference points without the check of collection 2's list
reference_points_second_unchecked(cs, os, collection1, collection2, reference_category) ==
    LET points1 == find_reference_points(cs, os, collection1, reference_category)
        points2 == find_reference_points(cs, os, collection2, reference_category)
    IN  IF points1 = <<>>
        THEN create_error_result(sAucunPoint \o reference_category \o sTrouveDans
                                 \o cs[collection1].name)
        ELSE [success |-> TRUE,
              collection1_points |-> SortByZ(points1),
              collection2_points |-> SortByZ(points2),
              reference_category |-> reference_category]

analyze_precise_reference_points(cs, os, collection1, collection2, reference_category) ==
    LET points1 == find_reference_points(cs, os, collection1, reference_category)
        points2 == find_reference_points(cs, os, collection2, reference_category)
    IN  IF points1 = <<>>
        THEN create_error_result(sAucunPoint \o reference_category \o sTrouveDans
                                 \o cs[collection1].name)
        ELSE IF points2 = <<>>
        THEN create_error_result(sAucunPoint \o reference_category \o sTrouveDans
                                 \o cs[collection2].name)
        ELSE [success |-> TRUE,
              collection1_points |-> SortByZ(points1),
              collection2_points |-> SortByZ(points2),
              reference_category |-> reference_category]

\* {point['specific_name']: point for point in points}: a key keeps the place
\* of its first occurrence and the value of its last
RECURSIVE PointsDict(_, _)
PointsDict(points, d) ==
    IF points = <<>> THEN d
    ELSE LET pt == Head(points)
         IN  PointsDict(Tail(points),
                IF \E i \in 1..Len(d) : d[i].specific_name = pt.specific_name
                THEN [i \in 1..Len(d) |->
                        IF d[i].specific_name = pt.specific_name THEN pt ELSE d[i]]
                ELSE Append(d, pt))

DictGet(d, name) == d[CHOOSE i \in 1..Len(d) : d[i].specific_name = name]

calculate_precise_displacements(reference_analysis) ==
    LET points1_dict == PointsDict(reference_analysis.collection1_points, <<>>)
        points2_dict == PointsDict(reference_analysis.collection2_points, <<>>)
        InBoth(point1) == \E i \in 1..Len(points2_dict) :
                              points2_dict[i].specific_name = point1.specific_name
        common == SelectSeq(points1_dict, InBoth)
        unsorted == [i \in 1..Len(common) |->
                        LET point2 == DictGet(points2_dict, common[i].specific_name)
                        IN  [name |-> common[i].specific_name,
                             point1 |-> common[i],
                             point2 |-> point2,
                             distance |-> FAbs(common[i].location[3] - point2.location[3])]]
        exact_matches == SortByDistance(unsorted)
        Displacements(axis) ==
            [i \in 1..Len(exact_matches) |->
                [name |-> exact_matches[i].name,
                 displacement |-> exact_matches[i].point1.location[axis]
                                  - exact_matches[i].point2.location[axis]]]
    IN  [exact_matches |-> exact_matches,
         displacements_by_axis |->
            [x |-> Displacements(1), y |-> Displacements(2), z |-> Displacements(3)],
         recommended_displacement |->
            IF exact_matches # <<>>
            THEN [i \in 1..3 |-> exact_matches[1].point1.location[i]
                                 - exact_matches[1].point2.location[i]]
            ELSE <<0, 0, 0>>,
         primary_reference |-> IF exact_matches # <<>> THEN exact_matches[1] ELSE None]

generate_precise_recommendations(alignment_data) ==
    LET displacement == alignment_data.recommended_displacement
        matches == alignment_data.exact_matches
        distances == {matches[i].distance : i \in 1..Len(matches)}
        max_diff == (0 - SetMin({0 - d : d \in distances})) - SetMin(distances)
    IN  IF matches = <<>> THEN <<"no_match">>
        ELSE <<"primary", "distance">>
             \o (IF FAbs(displacement[1]) > DisplacementThreshold THEN <<"x">> ELSE <<>>)
             \o (IF FAbs(displacement[2]) > DisplacementThreshold THEN <<"y">> ELSE <<>>)
             \o (IF FAbs(displacement[3]) > DisplacementThreshold THEN <<"z">> ELSE <<>>)
             \o (IF Len(matches) > 1
                 THEN (IF max_diff > CoherenceThreshold
                       THEN <<"incoherent">> ELSE <<"coherent">>)
                 ELSE <<>>)

analyze_precise_alignment(cs, os, collection1_name, collection2_name, reference_category) ==
    LET collection1 == find_collection(cs, collection1_name)
        collection2 == find_collection(cs, collection2_name)
        reference_analysis ==
            analyze_precise_reference_points(cs, os, collection1, collection2,
                                             reference_category)
        alignment_data == calculate_precise_displacements(reference_analysis)
    IN  IF collection1 = 0 THEN create_error_result(NotFoundMessage(collection1_name))
        ELSE IF collection2 = 0 THEN create_error_result(NotFoundMessage(collection2_name))
        ELSE IF ~reference_analysis.success THEN reference_analysis
        ELSE [success |-> TRUE,
              collection1 |-> [name |-> collection1_name,
                               reference_points |-> reference_analysis.collection1_points],
              collection2 |-> [name |-> collection2_name,
                               reference_points |-> reference_analysis.collection2_points],
              alignment_analysis |-> alignment_data,
              recommendations |-> generate_precise_recommendations(alignment_data)]

\* move_recursive: every visit of an object adds the displacement to its
\* location; returns the objects after the visits of walk
\* the move applied to the vertical axis only
RECURSIVE move_recursive_vertical(_, _, _)
move_recursive_vertical(os, walk, displacement) ==
    IF walk = <<>> THEN os
    ELSE move_recursive_vertical(
            [os EXCEPT ![Head(walk)].loc = <<@[1], @[2], @[3] + displacement[3]>>],
            Tail(walk), displacement)

RECURSIVE move_recursive(_, _, _)
move_recursive(os, walk, displacement) ==
    IF walk = <<>> THEN os
    ELSE move_recursive(
            IF LocationTruthy(os[Head(walk)].loc)
            THEN [os EXCEPT ![Head(walk)].loc =
                     [i \in 1..3 |-> @[i] + displacement[i]]]
            ELSE os,
            Tail(walk), displacement)

\* len(moved_objects)
MovedCount(os, walk) ==
    Cardinality({i \in 1..Len(walk) : LocationTruthy(os[walk[i]].loc)})

(***************************************************************************)
(* CollAligner calls                                                       *)
(***************************************************************************)
Call(op, c1, c2, cat) == [op |-> op, c1 |-> c1, c2 |-> c2, category |-> cat]

AnalyzeDistance(n1, n2) ==
    /\ alCalls < MaxAlignCalls
    /\ alCalls' = alCalls + 1
    /\ alCall' = Call("analyze_collections_distance", n1, n2, <<>>)
    /\ objsBefore' = objs
    /\ alResult' = analyze_collections_distance(colls, objs, n1, n2)
    /\ UNCHANGED <<sceneVars, fsVars, exportVars, importVars, analysisVars, selectorSide, renameVars>>

AnalyzePrecise(n1, n2, cat) ==
    /\ alCalls < MaxAlignCalls
    /\ alCalls' = alCalls + 1
    /\ alCall' = Call("analyze_precise_alignment", n1, n2, cat)
    /\ objsBefore' = objs
    /\ alResult' = analyze_precise_alignment(colls, objs, n1, n2, cat)
    /\ UNCHANGED <<sceneVars, fsVars, exportVars, importVars, analysisVars, selectorSide, renameVars>>

ApplyPrecise(n1, n2, cat) ==
    /\ alCalls < MaxAlignCalls
    /\ alCalls' = alCalls + 1
    /\ alCall' = Call("apply_precise_alignment", n1, n2, cat)
    /\ objsBefore' = objs
    /\ LET analysis == analyze_precise_alignment(colls, objs, n1, n2, cat)
           displacement == analysis.alignment_analysis.recommended_displacement
           collection2 == find_collection(colls, n2)
           walk == Walk(colls, <<collection2>>)
       IN  IF ~analysis.success
           THEN /\ alResult' = analysis
                /\ UNCHANGED objs
           ELSE IF collection2 = 0
           THEN /\ alResult' = create_error_result(NotFoundMessage(n2))
                /\ UNCHANGED objs
           ELSE /\ objs' = move_recursive(objs, walk, displacement)
                /\ alResult' = [success |-> TRUE,
                                collection_moved |-> n2,
                                displacement_applied |-> displacement,
                                objects_moved |-> MovedCount(objs, walk),
                                analysis |-> analysis]
    /\ UNCHANGED <<colls, selected, sceneRoot, fsVars, exportVars, importVars, analysisVars, selectorSide, renameVars>>

(***************************************************************************)
(* Scenes and arguments the aligner is called with                         *)
(***************************************************************************)
sProjA == <<"I","f","c","P","r","o","j","e","c","t","/","A">>
sProjB == <<"I","f","c","P","r","o","j","e","c","t","/","B">>
sProjC == <<"I","f","c","P","r","o","j","e","c","t","/","C">>
sSubA == <<"A","/","S","u","b">>
sSubB == <<"B","/","S","u","b">>
sEmptyColl == <<"E","m","p","t","y">>
sZzz == <<"Z","z","z">>
sB == <<"B">>
sRefN1 == <<"I","f","c","B","u","i","l","d","i","n","g","S","t","o","r","e","y","/","N","1">>
sRefN1b == <<"I","f","c","B","u","i","l","d","i","n","g","S","t","o","r","e","y","/","N","1",".","0","0","1">>
sRefN2 == <<"I","f","c","B","u","i","l","d","i","n","g","S","t","o","r","e","y","/","N","2">>
sRefN1c == <<"I","f","c","B","u","i","l","d","i","n","g","S","t","o","r","e","y","/","N","1",".","0","0","2">>
sRefN15 == <<"I","f","c","B","u","i","l","d","i","n","g","S","t","o","r","e","y","/","N","1",".","5">>
sRefN3 == <<"I","f","c","B","u","i","l","d","i","n","g","S","t","o","r","e","y","/","N","3">>
sRefN4 == <<"I","f","c","B","u","i","l","d","i","n","g","S","t","o","r","e","y","/","N","4">>
sRefN2b == <<"I","f","c","B","u","i","l","d","i","n","g","S","t","o","r","e","y","/","N","2",".","0","0","1">>
sWallW == <<"I","f","c","W","a","l","l","/","W">>
sSlabS == <<"I","f","c","S","l","a","b","/","S">>

\* project A (two storey empties, one in a child collection), project B (the
\* same storeys, displaced, and a wall), a collection without objects, and
\* project C without reference points; with linkedTwice the storey empty N1
\* of project B is linked into B and into its child collection
\* fifth is the name of the collection without objects
AlignColls(linkedTwice, fifth) ==
    << Coll(sProjA, <<3>>, <<1>>),
       Coll(sProjB, <<4>>, <<3>>),
       Coll(sSubA, <<>>, <<2>>),
       Coll(sSubB, <<>>, IF linkedTwice THEN <<3, 4, 5>> ELSE <<4, 5>>),
       Coll(fifth, <<>>, <<>>),
       Coll(sProjC, <<>>, <<6>>) >>

\* the places of the slab: near the other objects, far from them, on the
\* thresholds of the distance report, and inside the box of project A
SlabPlaces == << <<2, 0, 0>>, <<240, 0, 120>>, <<50, 100, 50>>, <<100, 0, 0>>, <<0, 0, 4>> >>

\* naming "twin": collection B holds two points of the token N1; naming
\* "apart": the two projects share no token; naming "crossed": the pair of
\* the lowest token is not the closest pair; naming "decimal": a storey is
\* named with a decimal number
AlignObjs(place, naming) ==
    << Obj(IF naming = "apart" THEN sRefN3
           ELSE IF naming = "decimal" THEN sRefN15 ELSE sRefN1, "EMPTY",
           IF naming = "twin" THEN <<0, 0, 8>> ELSE <<0, 0, 0>>, <<>>),
       Obj(IF naming = "apart" THEN sRefN4 ELSE sRefN2, "EMPTY", <<0, 0, 6>>, <<>>),
       Obj(sRefN1b, "EMPTY", IF naming = "crossed" THEN <<4, 2, 6>> ELSE <<4, 2, 2>>, <<>>),
       Obj(sRefN2b, "EMPTY", <<4, 2, 10>>, <<>>),
       IF naming = "twin" THEN Obj(sRefN1c, "EMPTY", <<6, 2, 12>>, <<>>)
               ELSE Obj(sWallW, "MESH", <<6, 2, 2>>, <<>>),
       Obj(sSlabS, "MESH", SlabPlaces[place], <<>>) >>

AlignScenes ==
    {<<FALSE, place, "plain", sEmptyColl>> : place \in 1..Len(SlabPlaces)}
    \cup {<<TRUE, 1, "plain", sEmptyColl>>, <<FALSE, 1, "twin", sEmptyColl>>,
          <<FALSE, 1, "apart", sEmptyColl>>, <<FALSE, 1, "crossed", sEmptyColl>>,
          <<FALSE, 1, "plain", sB>>, <<FALSE, 1, "decimal", sEmptyColl>>}
AlignQueries == {sProjA, sB, sEmptyColl, sProjC, sZzz}
AlignCategories == {sIfcBuildingStorey}

InitAlign ==
    /\ AnalysisIdle
    /\ \E scene \in AlignScenes :
          /\ colls = AlignColls(scene[1], scene[4])
          /\ objs = AlignObjs(scene[2], scene[3])
    /\ selected = {}
    /\ sceneRoot = [children |-> <<1, 2, 5, 6>>, objects |-> <<>>]
    /\ fsGlb = <<>> /\ fsElem = <<>> /\ fsProp = <<>> /\ fsIndex = <<>>
    /\ fsLog = <<>> /\ fsDirs = {}
    /\ ExportIdle
    /\ ImportIdle
    /\ AlignIdle
    /\ SelectIdle
    /\ RenameIdle

NextAlign ==
    \/ \E n1, n2 \in AlignQueries : AnalyzeDistance(n1, n2)
    \/ \E n1, n2 \in AlignQueries : \E cat \in AlignCategories : AnalyzePrecise(n1, n2, cat)
    \/ \E n1, n2 \in AlignQueries : \E cat \in AlignCategories : ApplyPrecise(n1, n2, cat)

SpecAlign == InitAlign /\ [][NextAlign]_vars

(***************************************************************************)
(* bim_tools/coll_name.py: renaming collections to the IFC hierarchy       *)
(* Assigning a name that another collection holds gives the first free     *)
(* name.001, name.002, ... as the host does for every datablock.           *)
(***************************************************************************)
\* the cased characters of U+0020 to U+00FF and of what upper() and lower() make of
\* them, with c.upper() and c.lower(); a character above U+00FF is written by its
\* code point: "U+0178" is the one character '\u0178'
sCased == <<"A","B","C","D","E","F","G","H","I","J","K","L","M","N","O","P","Q","R","S","T","U","V","W","X","Y","Z","a","b","c","d","e","f","g","h","i","j","k","l","m","n","o","p","q","r","s","t","u","v","w","x","y","z","µ","À","Á","Â","Ã","Ä","Å","Æ","Ç","È","É","Ê","Ë","Ì","Í","Î","Ï","Ð","Ñ","Ò","Ó","Ô","Õ","Ö","Ø","Ù","Ú","Û","Ü","Ý","Þ","ß","à","á","â","ã","ä","å","æ","ç","è","é","ê","ë","ì","í","î","ï","ð","ñ","ò","ó","ô","õ","ö","ø","ù","ú","û","ü","ý","þ","ÿ","U+0178","U+039C","U+03BC">>
sUpperOf == <<<<"A">>,<<"B">>,<<"C">>,<<"D">>,<<"E">>,<<"F">>,<<"G">>,<<"H">>,<<"I">>,<<"J">>,<<"K">>,<<"L">>,<<"M">>,<<"N">>,<<"O">>,<<"P">>,<<"Q">>,<<"R">>,<<"S">>,<<"T">>,<<"U">>,<<"V">>,<<"W">>,<<"X">>,<<"Y">>,<<"Z">>,<<"A">>,<<"B">>,<<"C">>,<<"D">>,<<"E">>,<<"F">>,<<"G">>,<<"H">>,<<"I">>,<<"J">>,<<"K">>,<<"L">>,<<"M">>,<<"N">>,<<"O">>,<<"P">>,<<"Q">>,<<"R">>,<<"S">>,<<"T">>,<<"U">>,<<"V">>,<<"W">>,<<"X">>,<<"Y">>,<<"Z">>,<<"U+039C">>,<<"À">>,<<"Á">>,<<"Â">>,<<"Ã">>,<<"Ä">>,<<"Å">>,<<"Æ">>,<<"Ç">>,<<"È">>,<<"É">>,<<"Ê">>,<<"Ë">>,<<"Ì">>,<<"Í">>,<<"Î">>,<<"Ï">>,<<"Ð">>,<<"Ñ">>,<<"Ò">>,<<"Ó">>,<<"Ô">>,<<"Õ">>,<<"Ö">>,<<"Ø">>,<<"Ù">>,<<"Ú">>,<<"Û">>,<<"Ü">>,<<"Ý">>,<<"Þ">>,<<"S","S">>,<<"À">>,<<"Á">>,<<"Â">>,<<"Ã">>,<<"Ä">>,<<"Å">>,<<"Æ">>,<<"Ç">>,<<"È">>,<<"É">>,<<"Ê">>,<<"Ë">>,<<"Ì">>,<<"Í">>,<<"Î">>,<<"Ï">>,<<"Ð">>,<<"Ñ">>,<<"Ò">>,<<"Ó">>,<<"Ô">>,<<"Õ">>,<<"Ö">>,<<"Ø">>,<<"Ù">>,<<"Ú">>,<<"Û">>,<<"Ü">>,<<"Ý">>,<<"Þ">>,<<"U+0178">>,<<"U+0178">>,<<"U+039C">>,<<"U+039C">>>>
sLowerOf == <<<<"a">>,<<"b">>,<<"c">>,<<"d">>,<<"e">>,<<"f">>,<<"g">>,<<"h">>,<<"i">>,<<"j">>,<<"k">>,<<"l">>,<<"m">>,<<"n">>,<<"o">>,<<"p">>,<<"q">>,<<"r">>,<<"s">>,<<"t">>,<<"u">>,<<"v">>,<<"w">>,<<"x">>,<<"y">>,<<"z">>,<<"a">>,<<"b">>,<<"c">>,<<"d">>,<<"e">>,<<"f">>,<<"g">>,<<"h">>,<<"i">>,<<"j">>,<<"k">>,<<"l">>,<<"m">>,<<"n">>,<<"o">>,<<"p">>,<<"q">>,<<"r">>,<<"s">>,<<"t">>,<<"u">>,<<"v">>,<<"w">>,<<"x">>,<<"y">>,<<"z">>,<<"µ">>,<<"à">>,<<"á">>,<<"â">>,<<"ã">>,<<"ä">>,<<"å">>,<<"æ">>,<<"ç">>,<<"è">>,<<"é">>,<<"ê">>,<<"ë">>,<<"ì">>,<<"í">>,<<"î">>,<<"ï">>,<<"ð">>,<<"ñ">>,<<"ò">>,<<"ó">>,<<"ô">>,<<"õ">>,<<"ö">>,<<"ø">>,<<"ù">>,<<"ú">>,<<"û">>,<<"ü">>,<<"ý">>,<<"þ">>,<<"ß">>,<<"à">>,<<"á">>,<<"â">>,<<"ã">>,<<"ä">>,<<"å">>,<<"æ">>,<<"ç">>,<<"è">>,<<"é">>,<<"ê">>,<<"ë">>,<<"ì">>,<<"í">>,<<"î">>,<<"ï">>,<<"ð">>,<<"ñ">>,<<"ò">>,<<"ó">>,<<"ô">>,<<"õ">>,<<"ö">>,<<"ø">>,<<"ù">>,<<"ú">>,<<"û">>,<<"ü">>,<<"ý">>,<<"þ">>,<<"ÿ">>,<<"ÿ">>,<<"U+03BC">>,<<"U+03BC">>>>
sSITE == <<"S","I","T","E">>
sIfcSiteSlash == <<"I","f","c","S","i","t","e","/">>
sBUILDING == <<"B","U","I","L","D","I","N","G">>
sIfcBuildingSlash == <<"I","f","c","B","u","i","l","d","i","n","g","/">>
sSTOREY == <<"S","T","O","R","E","Y">>
sFONDATION == <<"F","O","N","D","A","T","I","O","N">>
sFond == <<"I","f","c","B","u","i","l","d","i","n","g","S","t","o","r","e","y","/","F","o","n","d",".">>
sTOIT == <<"T","O","I","T">>
sToit == <<"I","f","c","B","u","i","l","d","i","n","g","S","t","o","r","e","y","/","T","o","i","t">>
sDA == <<"D",".","A",".">>
sMARQUISE == <<"M","A","R","Q","U","I","S","E">>
sSUP == <<"S","U","P",".">>
sNIVEAU == <<"N","I","V","E","A","U">>
sNIVEAUSpace == <<"N","I","V","E","A","U"," ">>
sNiv == <<"I","f","c","B","u","i","l","d","i","n","g","S","t","o","r","e","y","/","N","i","v","_">>
sDoubleStorey == <<"I","f","c","B","u","i","l","d","i","n","g","S","t","o","r","e","y","/","I","f","c","B","u","i","l","d","i","n","g","S","t","o","r","e","y","/">>
sDot001 == <<".","0","0","1">>

\* str.upper: every cased character is mapped, some to several characters
RECURSIVE Upper(_)
Upper(s) ==
    IF s = <<>> THEN <<>>
    ELSE (IF \E k \in 1..Len(sCased) : sCased[k] = Head(s)
          THEN sUpperOf[CHOOSE k \in 1..Len(sCased) : sCased[k] = Head(s)]
          ELSE <<Head(s)>>) \o Upper(Tail(s))

\* s.split(sep, 1)[1] for a str that holds sep
AfterFirst(s, sep) ==
    LET i == CHOOSE k \in 1..Len(s) : s[k] = sep /\ \A j \in 1..(k - 1) : s[j] # sep
    IN  SubSeq(s, i + 1, Len(s))

IsDigit(c) == c \in {"0", "1", "2", "3", "4", "5", "6", "7", "8", "9"}

\* the end of the run of digits that starts at i
DigitRunEnd(s, i) ==
    CHOOSE e \in i..Len(s) :
        /\ \A k \in i..e : IsDigit(s[k])
        /\ (e = Len(s) \/ ~IsDigit(s[e + 1]))

\* re.search(r'(\d+(?:\.\d+)?)', s).group(1), None without a match
SearchNumber(s) ==
    IF ~ \E i \in 1..Len(s) : IsDigit(s[i]) THEN None
    ELSE LET first == CHOOSE i \in 1..Len(s) : IsDigit(s[i]) /\ \A j \in 1..(i - 1) : ~IsDigit(s[j])
             e1 == DigitRunEnd(s, first)
         IN  IF e1 + 2 <= Len(s) /\ s[e1 + 1] = "." /\ IsDigit(s[e1 + 2])
             THEN SubSeq(s, first, DigitRunEnd(s, e1 + 2))
             ELSE SubSeq(s, first, e1)

\* clean_collection_name
clean_collection_name(name) ==
    IF StartsWith(name, sDoubleStorey)
    THEN Replace(name, sDoubleStorey, sIfcBuildingStoreySlash)
    ELSE name

\* discipline_suffix = f"/{discipline}" if discipline else ".001"
discipline_suffix(discipline) ==
    IF Truthy(discipline) THEN <<"/">> \o discipline ELSE sDot001

\* the new name of a storey collection, from the part after the first '/'
storey_name(child_name, suffix) ==
    LET level_name == IF Contains(<<"/">>, child_name) THEN AfterFirst(child_name, "/")
                      ELSE child_name
        upper == Upper(level_name)
    IN  IF Contains(sFONDATION, upper) THEN sFond \o suffix
        ELSE IF Contains(sTOIT, upper) THEN sToit \o suffix
        ELSE IF Contains(sDA, level_name) \/ Contains(sMARQUISE, upper) \/ Contains(sSUP, upper)
        THEN sIfcBuildingStoreySlash
             \o Replace(Replace(level_name, <<" ">>, <<"_">>), <<".">>, <<"_">>) \o suffix
        ELSE IF Contains(sNIVEAU, upper)
        THEN IF SearchNumber(level_name) # None
             THEN sNiv \o SearchNumber(level_name) \o suffix
             ELSE sIfcBuildingStoreySlash
                  \o Replace(Replace(level_name, sNIVEAUSpace, <<>>), <<" ">>, <<"_">>) \o suffix
        ELSE sIfcBuildingStoreySlash \o Replace(level_name, <<" ">>, <<"_">>) \o suffix

\* new_name of rename_children_recursive for one child, None when no rule applies
new_name(child_name, site_name, building_name, suffix) ==
    LET upper == Upper(child_name)
    IN  IF Contains(sSITE, upper) \/ Contains(sIfcSite, child_name)
        THEN sIfcSiteSlash \o Str(site_name) \o suffix
        ELSE IF (Contains(sBUILDING, upper) \/ Contains(sIfcBuilding, child_name))
                /\ ~Contains(sSTOREY, upper)
        THEN sIfcBuildingSlash \o Str(building_name) \o suffix
        ELSE IF Contains(sSTOREY, upper) \/ StartsWith(child_name, sIfcBuildingStoreySlash)
        THEN storey_name(child_name, suffix)
        ELSE None

\* collection.name = n: the host keeps the names of the container unique
SetName(cs, c, n) ==
    LET others == {cs[k].name : k \in (1..Len(cs)) \ {c}}
    IN  [cs EXCEPT ![c].name = UniqueName(others, n)]

\* an assignment that ignores dry_run
AssignAlways(dry_run, cs, c, n) == SetName(cs, c, n)

\* if not dry_run: collection.name = n
Assign(dry_run, cs, c, n) == IF dry_run THEN cs ELSE SetName(cs, c, n)

\* the children rename_children_recursive visits, in the order it visits them
RECURSIVE ChildWalk(_, _)
ChildWalk(cs, kids) ==
    IF kids = <<>> THEN <<>>
    ELSE <<Head(kids)>> \o ChildWalk(cs, cs[Head(kids)].children \o Tail(kids))

RECURSIVE rename_children_recursive(_, _, _, _, _, _)
rename_children_recursive(cs, visits, site_name, building_name, suffix, dry_run) ==
    IF visits = <<>> THEN cs
    ELSE LET child == Head(visits)
             n == new_name(cs[child].name, site_name, building_name, suffix)
             next == IF Truthy(n)
                     THEN Assign(dry_run, cs, child, clean_collection_name(n))
                     ELSE cs
         IN  rename_children_recursive(next, Tail(visits), site_name, building_name, suffix,
                                       dry_run)

rename_to_ifc_hierarchy(cs, project_code, site_name, building_name, collection_name, discipline, dry_run) ==
    LET suffix == discipline_suffix(discipline)
        root == CollIndex(cs, collection_name)
    IN  IF ~Truthy(collection_name) THEN cs
        ELSE IF root = 0 THEN cs
        ELSE rename_children_recursive(
                 Assign(dry_run, cs, root, sIfcProject \o Str(project_code) \o suffix),
                 ChildWalk(cs, cs[root].children), site_name, building_name, suffix, dry_run)

\* the first loop of rename_and_reorganize_ifc_collections
RECURSIVE RenameByMap(_, _, _)
RenameByMap(cs, rename_map, dry_run) ==
    IF rename_map = <<>> THEN cs
    ELSE LET col == CollIndex(cs, Head(rename_map)[1])
         IN  RenameByMap(IF col # 0 THEN Assign(dry_run, cs, col, Head(rename_map)[2]) ELSE cs,
                         Tail(rename_map), dry_run)

\* the collections reachable from c through children links, c included
RECURSIVE Descendants(_, _)
Descendants(cs, c) ==
    {c} \cup UNION {Descendants(cs, cs[c].children[k]) : k \in 1..Len(cs[c].children)}

\* parent.children.link(child)
Link(cs, parent, child) == [cs EXCEPT ![parent].children = Append(@, child)]

\* if not dry_run: parent.children.link(child)
LinkUnlessDry(dry_run, cs, parent, child) == IF dry_run THEN cs ELSE Link(cs, parent, child)

\* the second loop; a link that would close a cycle raises and ends the call
RECURSIVE Reorganize(_, _, _)
Reorganize(cs, hierarchy_order, dry_run) ==
    IF hierarchy_order = <<>> THEN cs
    ELSE LET parent == CollIndex(cs, Head(hierarchy_order)[1])
             child == CollIndex(cs, Head(hierarchy_order)[2])
             linked == \E k \in 1..Len(cs[parent].children) :
                           cs[cs[parent].children[k]].name = cs[child].name
         IN  IF parent = 0 \/ child = 0 THEN Reorganize(cs, Tail(hierarchy_order), dry_run)
             ELSE IF linked THEN Reorganize(cs, Tail(hierarchy_order), dry_run)
             ELSE IF ~dry_run /\ parent \in Descendants(cs, child) THEN cs
             ELSE Reorganize(LinkUnlessDry(dry_run, cs, parent, child), Tail(hierarchy_order),
                             dry_run)

rename_and_reorganize_ifc_collections(cs, rename_map, hierarchy_order, dry_run) ==
    Reorganize(RenameByMap(cs, rename_map, dry_run), hierarchy_order, dry_run)

RenameToIfcHierarchy(project_code, site_name, building_name, collection_name, discipline, dry_run) ==
    /\ rnCalls < MaxRenameCalls
    /\ rnCalls' = rnCalls + 1
    /\ rnCall' = [op |-> "rename_to_ifc_hierarchy", collection_name |-> collection_name,
                  discipline |-> discipline, rename_map |-> <<>>, hierarchy_order |-> <<>>,
                  dry_run |-> dry_run]
    /\ collsBefore' = colls
    /\ colls' = rename_to_ifc_hierarchy(colls, project_code, site_name, building_name,
                                        collection_name, discipline, dry_run)
    /\ UNCHANGED <<objs, selected, sceneRoot, fsVars, exportVars, importVars, analysisVars, alignVars,
                   selectorSide>>

RenameAndReorganize(rename_map, hierarchy_order, dry_run) ==
    /\ rnCalls < MaxRenameCalls
    /\ rnCalls' = rnCalls + 1
    /\ rnCall' = [op |-> "rename_and_reorganize_ifc_collections", collection_name |-> None,
                  discipline |-> None, rename_map |-> rename_map,
                  hierarchy_order |-> hierarchy_order, dry_run |-> dry_run]
    /\ collsBefore' = colls
    /\ colls' = rename_and_reorganize_ifc_collections(colls, rename_map, hierarchy_order,
                                                      dry_run)
    /\ UNCHANGED <<objs, selected, sceneRoot, fsVars, exportVars, importVars, analysisVars, alignVars,
                   selectorSide>>

(***************************************************************************)
(* Scenes and arguments the renaming is called with                        *)
(***************************************************************************)
sProjX == <<"I","f","c","P","r","o","j","e","c","t","/","X">>
sMySite == <<"M","y"," ","S","i","t","e">>
sBuildingB == <<"I","f","c","B","u","i","l","d","i","n","g","/","B">>
sNiveau15 == <<"I","f","c","B","u","i","l","d","i","n","g","S","t","o","r","e","y","/","N","I","V","E","A","U"," ","1",".","5">>
sFondations == <<"I","f","c","B","u","i","l","d","i","n","g","S","t","o","r","e","y","/","F","o","n","d","a","t","i","o","n","s">>
sStoreyToit == <<"S","t","o","r","e","y"," ","t","o","i","t">>
sNiveau1 == <<"I","f","c","B","u","i","l","d","i","n","g","S","t","o","r","e","y","/","N","I","V","E","A","U"," ","1">>
sMisc == <<"M","i","s","c">>
sDoubleRC == <<"I","f","c","B","u","i","l","d","i","n","g","S","t","o","r","e","y","/","I","f","c","B","u","i","l","d","i","n","g","S","t","o","r","e","y","/","R"," ","C">>
sNiveau1b == <<"I","f","c","B","u","i","l","d","i","n","g","S","t","o","r","e","y","/","N","i","v","e","a","u"," ","1"," ","b">>
sCode17 == <<"1","7">>
sMtl == <<"M","t","l">>
sSiteMtl == <<"I","f","c","S","i","t","e","/","M","t","l">>
sQ == <<"Q">>

\* an imported project: a site, a building with four storeys, and a
\* collection no rule applies to, which holds two more storeys
RenameColls ==
    << Coll(sProjX, <<2, 8>>, <<>>),
       Coll(sMySite, <<3>>, <<>>),
       Coll(sBuildingB, <<4, 5, 6, 7>>, <<>>),
       Coll(sNiveau15, <<>>, <<>>),
       Coll(sFondations, <<>>, <<>>),
       Coll(sStoreyToit, <<>>, <<>>),
       Coll(sNiveau1, <<>>, <<>>),
       Coll(sMisc, <<9, 10>>, <<>>),
       Coll(sDoubleRC, <<>>, <<>>),
       Coll(sNiveau1b, <<>>, <<>>) >>

\* the roots named in a call: none, the imported project, its name once
\* renamed with or without a discipline, a building, and an unknown name
sProj17Dup == <<"I","f","c","P","r","o","j","e","c","t","/","1","7",".","0","0","1">>
RenameRoots == {None, sProjX, sProjSTR, sProj17Dup, sBuildingB, sZzz}
RenameDisciplines == {None, sDiscSTR}
RenameMaps ==
    { << <<sMySite, sSiteMtl>> >>,
      << <<sMisc, sBuildingB>>, <<sZzz, sQ>> >> }
HierarchyOrders ==
    { << <<sProjX, sMisc>> >>,
      << <<sMisc, sBuildingB>>, <<sZzz, sMisc>> >>,
      << <<sBuildingB, sProjX>>, <<sMisc, sNiveau1>> >> }

InitRename ==
    /\ AnalysisIdle
    /\ colls = RenameColls
    /\ objs = <<>>
    /\ selected = {}
    /\ sceneRoot = [children |-> <<1>>, objects |-> <<>>]
    /\ fsGlb = <<>> /\ fsElem = <<>> /\ fsProp = <<>> /\ fsIndex = <<>>
    /\ fsLog = <<>> /\ fsDirs = {}
    /\ ExportIdle
    /\ ImportIdle
    /\ AlignIdle
    /\ SelectIdle
    /\ RenameIdle

NextRename ==
    \/ \E collection_name \in RenameRoots : \E discipline \in RenameDisciplines :
       \E dry_run \in BOOLEAN :
           RenameToIfcHierarchy(sCode17, sMtl, sMDA, collection_name, discipline, dry_run)
    \/ \E rename_map \in RenameMaps : \E hierarchy_order \in HierarchyOrders :
       \E dry_run \in BOOLEAN :
           RenameAndReorganize(rename_map, hierarchy_order, dry_run)

SpecRename == InitRename /\ [][NextRename]_vars

(***************************************************************************)
(* Properties of the renaming                                              *)
(***************************************************************************)
\* C12: with dry_run=True rename_to_ifc_hierarchy and
\* rename_and_reorganize_ifc_collections change nothing: every collection has
\* the name and the children it had before the call.
C12_DryRunChangesNothing ==
    (rnCall.op # "none" /\ rnCall.dry_run) =>
        /\ Len(colls) = Len(collsBefore)
        /\ \A c \in 1..Len(colls) :
              /\ colls[c].name = collsBefore[c].name
              /\ colls[c].children = collsBefore[c].children

\* a dry run on a root that exists, after an earlier call changed the scene
C12_Witness ==
    /\ rnCall.op = "rename_to_ifc_hierarchy"
    /\ rnCall.dry_run
    /\ rnCall.collection_name = sBuildingB
    /\ rnCalls = 2
    /\ colls # RenameColls
    /\ colls[3].name = sBuildingB

(***************************************************************************)
(* Properties of the aligner                                               *)
(***************************************************************************)
\* a name that neither equals nor is a substring of any collection name
NoMatch(n) == \A c \in 1..Len(colls) : colls[c].name # n /\ ~Contains(n, colls[c].name)

\* the collections of the subtree of c, and the objects linked into them
RECURSIVE Subtree(_, _)
Subtree(cs, c) == {c} \cup UNION {Subtree(cs, cs[c].children[k]) : k \in 1..Len(cs[c].children)}

SubtreeObjects(cs, c) == UNION {Range(cs[d].objects) : d \in Subtree(cs, c)}

LocationsUnchanged ==
    /\ Len(objs) = Len(objsBefore)
    /\ \A o \in 1..Len(objs) : objs[o].loc = objsBefore[o].loc

AlignOps ==
    {"analyze_collections_distance", "analyze_precise_alignment", "apply_precise_alignment"}

\* C6: a call of analyze_collections_distance, analyze_precise_alignment or
\* apply_precise_alignment with a name that matches no collection returns
\* the error record (success False, a message naming that collection, empty
\* distance_analysis and alignment_recommendations) and moves no object.
C6_NotFoundIsAnErrorRecord ==
    (alCall.op \in AlignOps /\ (NoMatch(alCall.c1) \/ NoMatch(alCall.c2))) =>
        /\ alResult.success = FALSE
        /\ Contains(IF NoMatch(alCall.c1) THEN alCall.c1 ELSE alCall.c2, alResult.error)
        /\ alResult.distance_analysis = EmptyDict
        /\ alResult.alignment_recommendations = <<>>
        /\ LocationsUnchanged

\* apply_precise_alignment was called with a first name that resolves and a
\* second name that matches nothing, after an earlier call had moved objects
C6_Witness ==
    /\ alCall.op = "apply_precise_alignment"
    /\ ~NoMatch(alCall.c1)
    /\ NoMatch(alCall.c2)
    /\ alCalls = 2
    /\ \E o \in 1..Len(objs) : objs[o].loc # AlignObjs(1, "plain")[o].loc /\ o # 6

\* C7 as stated: whenever both names resolve, analyze_collections_distance
\* and analyze_precise_alignment return success=True, whatever the two
\* collections hold.
C7_NoOtherFailure ==
    (/\ alCall.op \in {"analyze_collections_distance", "analyze_precise_alignment"}
     /\ ~NoMatch(alCall.c1) /\ ~NoMatch(alCall.c2))
    => alResult.success = TRUE

\* an EMPTY object of the subtree whose IFC category is the reference category
HasReferencePoint(n, cat) ==
    \E o \in SubtreeObjects(colls, find_collection(colls, n)) :
        objs[o].type = "EMPTY" /\ extract_ifc_category(objs[o].name) = cat

\* C7 amended: when both names resolve, analyze_collections_distance returns
\* success=True for any contents; analyze_precise_alignment returns
\* success=True exactly when each of the two subtrees holds a reference point
\* of the category, and an error record otherwise.
C7_FailureModes ==
    (~NoMatch(alCall.c1) /\ ~NoMatch(alCall.c2)) =>
        /\ alCall.op = "analyze_collections_distance" => alResult.success = TRUE
        /\ alCall.op = "analyze_precise_alignment" =>
              (alResult.success = TRUE <=>
                  (HasReferencePoint(alCall.c1, alCall.category)
                   /\ HasReferencePoint(alCall.c2, alCall.category)))

\* the distance of a collection with objects to one without was analysed
C7_Witness ==
    /\ alCall.op = "analyze_collections_distance"
    /\ alCall.c1 = sProjA
    /\ alCall.c2 = sEmptyColl
    /\ alResult.success = TRUE
    /\ alResult.collection2.analysis.total_objects = 0

\* C8: after a successful apply_precise_alignment every object of collection
\* 2's subtree is at its location before the call plus the displacement
\* applied, once per object however often it is linked, and objects_moved is
\* the number of distinct objects of the subtree.
C8_EachObjectMovedOnce ==
    (alCall.op = "apply_precise_alignment" /\ alResult.success = TRUE) =>
        LET moved == SubtreeObjects(colls, find_collection(colls, alCall.c2))
        IN  /\ \A o \in moved :
                  objs[o].loc = [i \in 1..3 |-> objsBefore[o].loc[i]
                                                + alResult.displacement_applied[i]]
            /\ alResult.objects_moved = Cardinality(moved)

(***************************************************************************)
(* bim_tools/coll_selector.py: CollectionSelector                          *)
(* Every object of the scene is in the current view layer, so              *)
(* _ensure_objects_in_view_layer links nothing and select_set never        *)
(* raises. CollectionSelector._find_collection is the code of              *)
(* CollAligner._find_collection, modelled by find_collection.              *)
(***************************************************************************)
\* range(20): the iterations of the wait loop
PollLimit == 20

\* time.sleep(0.5), in tenths of a second
SleepTenths == 5

\* CollectionSelector._create_error_result
selector_create_error_result(error_message) ==
    [success |-> FALSE,
     error |-> error_message,
     total_selected |-> 0,
     analysis |-> EmptyDict,
     selected_objects |-> <<>>,
     selection_details |-> EmptyDict]

RECURSIVE CountTypes(_, _, _)
CountTypes(os, walk, d) ==
    IF walk = <<>> THEN d
    ELSE CountTypes(os, Tail(walk), CountInto(d, os[Head(walk)].type))

\* CollectionSelector._analyze_collection_structure
analyze_collection_structure(cs, os, hid, collection, include_hidden) ==
    LET walk == Walk(cs, <<collection>>)
        Counted(o) == include_hidden \/ o \notin hid
        counted == SelectSeq(walk, Counted)
        NotVisible(o) == o \in hid
        issues == SelectSeq(walk, NotVisible)
    IN  [collection_name |-> cs[collection].name,
         direct_objects |-> Len(SelectSeq(cs[collection].objects, Counted)),
         sub_collections |-> Len(cs[collection].children),
         total_objects |-> Len(counted),
         by_type |-> CountTypes(os, counted, <<>>),
         by_category |-> CountCategories(os, counted, <<>>),
         visibility_issues |-> [i \in 1..Len(issues) |-> os[issues[i]].name]]

\* CollectionSelector._select_all_objects_recursive: the list it returns
select_all_objects_recursive(cs, collection) == Walk(cs, <<collection>>)

\* CollectionSelector._get_selection_details
get_selection_details(os, objects) ==
    LET IsMesh(o) == os[o].type = "MESH"
        IsEmpty(o) == os[o].type = "EMPTY"
        IsOther(o) == os[o].type \notin {"MESH", "EMPTY"}
        Names(seq) == [i \in 1..Len(seq) |-> os[seq[i]].name]
    IN  [mesh_objects |-> Names(SelectSeq(objects, IsMesh)),
         empty_objects |-> Names(SelectSeq(objects, IsEmpty)),
         other_objects |-> Names(SelectSeq(objects, IsOther)),
         ifc_types |-> CountCategories(os, objects, <<>>),
         position_range |->
             [min |-> [i \in 1..3 |-> FoldMin(os, objects, i, PosInf)],
              max |-> [i \in 1..3 |-> FoldMax(os, objects, i, NegInf)]]]

\* a wait loop that never breaks
NeverStopsWaiting(count, target) == FALSE

\* the wait loop's break: if selected >= expected
StopsWaiting(count, target) == count >= target

\* the selection, visibility and materials of the scene
SceneNow == [selected |-> selected, hidden |-> hidden, objMats |-> objMats,
             materials |-> materials]

\* select_collection_complete up to its wait loop
BeginSelection(collection_name, include_hidden) ==
    /\ selCall' = [collection_name |-> collection_name, include_hidden |-> include_hidden]
    /\ sceneBefore' = SceneNow
    /\ lastTool' = "select_collection_complete"
    /\ selPolls' = 0
    /\ selSlept' = 0
    /\ selSeen' = 0
    /\ LET collection == find_collection(colls, collection_name)
           objects == select_all_objects_recursive(colls, collection)
       IN  IF collection = 0
           THEN /\ selected' = {}
                /\ selResult' = selector_create_error_result(NotFoundMessage(collection_name))
                /\ selPc' = "done"
                /\ selAnalysis' = EmptyDict
                /\ selObjects' = <<>>
                /\ selExpected' = 0
                /\ UNCHANGED hidden
           ELSE /\ selAnalysis' = analyze_collection_structure(colls, objs, hidden, collection,
                                                               include_hidden)
                /\ hidden' = hidden \ Range(objects)
                /\ selected' = Range(objects)
                /\ selObjects' = objects
                /\ selExpected' = Len(objects)
                /\ selResult' = EmptyDict
                /\ selPc' = "wait"
    /\ UNCHANGED <<colls, objs, sceneRoot, fsVars, exportVars, importVars, analysisVars, alignVars,
                   renameVars, transpVars, colorVars>>

\* a call of select_collection_complete by the user
SelectBegin(collection_name, include_hidden) ==
    /\ selPc \in {"idle", "done"}
    /\ patPc \in {"idle", "done"}
    /\ selCalls + trCalls + colCalls < MaxSelectCalls
    /\ selCalls' = selCalls + 1
    /\ BeginSelection(collection_name, include_hidden)
    /\ UNCHANGED patVars

\* one iteration of the wait loop; count is len(bpy.context.selected_objects)
SelectPoll(count) ==
    /\ selPc = "wait"
    /\ selPolls' = selPolls + 1
    /\ selSeen' = count
    /\ IF StopsWaiting(count, selExpected)
       THEN /\ selPc' = "refresh"
            /\ UNCHANGED selSlept
       ELSE /\ selSlept' = selSlept + SleepTenths
            /\ selPc' = IF selPolls + 1 < PollLimit THEN "wait" ELSE "refresh"
    /\ UNCHANGED <<sceneVars, fsVars, exportVars, importVars, analysisVars, alignVars, renameVars, hidden,
                   selCall, selAnalysis, selObjects, selExpected, selResult, selCalls,
                   patVars, transpVars, callVars, colorVars>>

\* select_collection_complete after its wait loop
SelectReturn ==
    /\ selPc = "refresh"
    /\ selPc' = "done"
    /\ selResult' = [success |-> TRUE,
                     collection_name |-> selCall.collection_name,
                     total_selected |-> Len(selObjects),
                     analysis |-> selAnalysis,
                     selected_objects |-> [i \in 1..Len(selObjects) |-> objs[selObjects[i]].name],
                     selection_details |-> get_selection_details(objs, selObjects)]
    /\ UNCHANGED <<sceneVars, fsVars, exportVars, importVars, analysisVars, alignVars, renameVars, hidden,
                   selCall, selAnalysis, selObjects, selExpected, selPolls, selSlept, selSeen,
                   selCalls, patVars, transpVars, callVars, colorVars>>

sAucuneCollection == <<"A","u","c","u","n","e"," ","c","o","l","l","e","c","t","i","o","n"," ","t","r","o","u","v","é","e"," ","p","o","u","r"," ","l","e"," ","p","a","t","t","e","r","n",":"," ">>

\* [collection.name for collection in bpy.data.collections if pattern in collection.name]
matching_collections(cs, pattern) ==
    LET Matches(n) == Contains(pattern, n)
    IN  SelectSeq(CollNames(cs), Matches)

\* select_by_pattern up to the wait loop of its first select_collection_complete
PatternBegin(pattern, include_hidden) ==
    /\ selPc \in {"idle", "done"}
    /\ patPc \in {"idle", "done"}
    /\ selCalls + trCalls + colCalls < MaxSelectCalls
    /\ selCalls' = selCalls + 1
    /\ patCall' = [pattern |-> pattern, include_hidden |-> include_hidden]
    /\ patResults' = <<>>
    /\ LET matching == matching_collections(colls, pattern)
       IN  IF matching = <<>>
           THEN /\ patResult' = selector_create_error_result(sAucuneCollection \o pattern)
                /\ patPc' = "done"
                /\ patQueue' = <<>>
                /\ sceneBefore' = SceneNow
                /\ lastTool' = "select_by_pattern"
                /\ UNCHANGED <<sceneVars, fsVars, exportVars, importVars, analysisVars, alignVars,
                               renameVars, transpVars, colorVars, hidden, selPc, selCall, selAnalysis,
                               selObjects, selExpected, selPolls, selSlept, selSeen, selResult>>
           ELSE /\ patResult' = EmptyDict
                /\ patPc' = "call"
                /\ patQueue' = matching
                /\ BeginSelection(Head(matching), include_hidden)

\* select_by_pattern after a select_collection_complete has returned: the
\* result is stored, and the next collection is selected or the call returns
PatternNext ==
    /\ patPc = "call"
    /\ selPc = "done"
    /\ patResults' = Append(patResults, <<Head(patQueue), selResult>>)
    /\ patQueue' = Tail(patQueue)
    /\ UNCHANGED <<patCall, selCalls>>
    /\ IF Tail(patQueue) # <<>>
       THEN /\ BeginSelection(Head(Tail(patQueue)), patCall.include_hidden)
            /\ UNCHANGED <<patPc, patResult>>
       ELSE /\ patPc' = "done"
            /\ patResult' = [success |-> TRUE,
                             pattern |-> patCall.pattern,
                             matching_collections |->
                                 [i \in 1..Len(patResults') |-> patResults'[i][1]],
                             results |-> patResults']
            /\ UNCHANGED <<sceneVars, fsVars, exportVars, importVars, analysisVars, alignVars, renameVars,
                           transpVars, callVars, colorVars, hidden, selPc, selCall, selAnalysis,
                           selObjects, selExpected, selPolls, selSlept, selSeen, selResult>>

(***************************************************************************)
(* bim_tools/transparent.py: apply_transparency                            *)
(* A material is [name, use_nodes, has_bsdf, base_color, alpha,            *)
(* blend_method]; has_bsdf says that its node tree holds a node named      *)
(* "Principled BSDF" once use_nodes is set. alpha and the four components  *)
(* of base_color are in hundredths. A material slot is the index of its    *)
(* material in bpy.data.materials, 0 for an empty slot (None); a removed   *)
(* material leaves RemovedMaterial at its index.                           *)
(***************************************************************************)
\* max(0.0, min(1.0, 1.0 - percent / 100.0)), in hundredths
alpha_value(percent) ==
    LET a == 100 - percent
    IN  IF a < 0 THEN 0 ELSE IF a > 100 THEN 100 ELSE a

\* the first collection whose name contains collection_name, 0 for None
target_collection(cs, collection_name) ==
    LET hits == {i \in 1..Len(cs) : Contains(collection_name, cs[i].name)}
    IN  IF hits = {} THEN 0 ELSE SetMin(hits)

\* bpy.data.materials.new(name): a node material with the default tree
NewMaterial(mats, name) ==
    [name |-> UniqueName({mats[k].name : k \in 1..Len(mats)}, name),
     use_nodes |-> TRUE, has_bsdf |-> TRUE, base_color |-> <<80, 10, 10, 100>>, alpha |-> 100,
     blend_method |-> "OPAQUE"]

\* the body of the loop over the selected objects, for one MESH object
MakeTransparent(sc, os, o, mat_name_prefix, alpha) ==
    LET fresh == sc.objMats[o] = <<>>
        mats1 == IF fresh
                 THEN Append(sc.materials, NewMaterial(sc.materials, mat_name_prefix \o os[o].name))
                 ELSE [sc.materials EXCEPT ![sc.objMats[o][1]].use_nodes = TRUE]
        mat == IF fresh THEN Len(mats1) ELSE sc.objMats[o][1]
        mats2 == IF mats1[mat].has_bsdf THEN [mats1 EXCEPT ![mat].alpha = alpha] ELSE mats1
    IN  [objMats |-> IF fresh THEN [sc.objMats EXCEPT ![o] = <<mat>>] ELSE sc.objMats,
         materials |-> [mats2 EXCEPT ![mat].blend_method = "BLEND"]]

\* for obj in bpy.context.selected_objects: if obj.type == 'MESH': ...
\* (on a mesh whose first slot is empty, mat.use_nodes raises and the call ends)
RECURSIVE TransparentAll(_, _, _, _, _)
TransparentAll(sc, os, sel, mat_name_prefix, alpha) ==
    IF sel = {} THEN sc
    ELSE LET o == SetMin(sel)
         IN  IF os[o].type = "MESH" /\ sc.objMats[o] # <<>> /\ sc.objMats[o][1] = 0 THEN sc
             ELSE
             TransparentAll(IF os[o].type = "MESH"
                            THEN MakeTransparent(sc, os, o, mat_name_prefix, alpha)
                            ELSE sc,
                            os, sel \ {o}, mat_name_prefix, alpha)

ApplyTransparency(percent, mat_name_prefix, collection_name) ==
    /\ selPc \in {"idle", "done"}
    /\ patPc \in {"idle", "done"}
    /\ selCalls + trCalls + colCalls < MaxSelectCalls
    /\ trCalls' = trCalls + 1
    /\ trCall' = [percent |-> percent, mat_name_prefix |-> mat_name_prefix,
                  collection_name |-> collection_name]
    /\ sceneBefore' = SceneNow
    /\ lastTool' = "apply_transparency"
    /\ LET target == target_collection(colls, collection_name)
           found == ~Truthy(collection_name) \/ target # 0
           sel == IF ~Truthy(collection_name) THEN selected
                  ELSE IF target = 0 THEN {}
                  ELSE Range(colls[target].objects) \ hidden
           after == TransparentAll([objMats |-> objMats, materials |-> materials], objs, sel,
                                   mat_name_prefix, alpha_value(percent))
       IN  /\ selected' = sel
           /\ objMats' = IF found THEN after.objMats ELSE objMats
           /\ materials' = IF found THEN after.materials ELSE materials
    /\ UNCHANGED <<colls, objs, sceneRoot, fsVars, exportVars, importVars, analysisVars, alignVars,
                   renameVars, selectVars, patVars, colorVars>>

(***************************************************************************)
(* bim_tools/coll_color.py                                                 *)
(***************************************************************************)
sColorUnderscore == <<"C","o","l","o","r","_">>

\* get_color_presets(): name -> RGBA in hundredths
get_color_presets ==
    << <<<<"r","o","u","g","e">>, <<100, 0, 0, 100>>>>, <<<<"v","e","r","t">>, <<0, 100, 0, 100>>>>,
       <<<<"b","l","e","u">>, <<0, 0, 100, 100>>>>, <<<<"j","a","u","n","e">>, <<100, 100, 0, 100>>>>,
       <<<<"c","y","a","n">>, <<0, 100, 100, 100>>>>, <<<<"m","a","g","e","n","t","a">>, <<100, 0, 100, 100>>>>,
       <<<<"o","r","a","n","g","e">>, <<100, 50, 0, 100>>>>, <<<<"v","i","o","l","e","t">>, <<50, 0, 100, 100>>>>,
       <<<<"b","l","e","u","_","f","o","n","c","e">>, <<0, 0, 80, 100>>>>, <<<<"r","o","u","g","e","_","f","o","n","c","e">>, <<80, 0, 0, 100>>>>,
       <<<<"v","e","r","t","_","f","o","n","c","e">>, <<0, 80, 0, 100>>>>, <<<<"g","r","i","s">>, <<50, 50, 50, 100>>>>,
       <<<<"b","l","a","n","c">>, <<100, 100, 100, 100>>>>, <<<<"n","o","i","r">>, <<0, 0, 0, 100>>>> >>

RemovedMaterial ==
    [name |-> None, use_nodes |-> FALSE, has_bsdf |-> FALSE, base_color |-> <<0, 0, 0, 0>>,
     alpha |-> 0, blend_method |-> "OPAQUE"]

\* bpy.data.materials.remove(material): every slot that held it is left empty
materials_remove(sc, m) ==
    [objMats |-> [o \in 1..Len(sc.objMats) |->
                     [k \in 1..Len(sc.objMats[o]) |->
                         IF sc.objMats[o][k] = m THEN 0 ELSE sc.objMats[o][k]]],
     materials |-> [sc.materials EXCEPT ![m] = RemovedMaterial]]

\* apply_color_to_collection: what it returns, and the materials after it
apply_color_to_collection(sc, cs, os, collection_name, color, force_new_material) ==
    LET collection == CollIndex(cs, collection_name)
        safe_name == Replace(Replace(collection_name, <<"/">>, <<"_">>), <<" ">>, <<"_">>)
        mat_name == sColorUnderscore \o safe_name
        old == {k \in 1..Len(sc.materials) : sc.materials[k].name = mat_name}
        sc1 == IF force_new_material /\ old # {} THEN materials_remove(sc, SetMin(old)) ELSE sc
        mat == [name |-> UniqueName({sc1.materials[k].name : k \in 1..Len(sc1.materials)}, mat_name),
                use_nodes |-> TRUE, has_bsdf |-> TRUE,
                base_color |-> <<color[1], color[2], color[3], 100>>, alpha |-> 100,
                blend_method |-> "OPAQUE"]
        id == Len(sc1.materials) + 1
        meshes == IF collection = 0 THEN {}
                  ELSE {o \in Range(AllObjects(cs, collection)) : os[o].type = "MESH"}
    IN  IF collection = 0
        THEN [result |-> FALSE, objMats |-> sc.objMats, materials |-> sc.materials]
        ELSE [result |-> TRUE,
              objMats |-> [o \in 1..Len(sc1.objMats) |->
                              IF o \notin meshes THEN sc1.objMats[o]
                              ELSE IF force_new_material THEN <<id>>
                              ELSE Append(sc1.objMats[o], id)],
              materials |-> Append(sc1.materials, mat)]

\* a call of one of the functions of coll_color.py; known says that the
\* colour was found (a colour name missing from the presets returns False)
ColorCall(op, collection_name, color, force_new_material, known) ==
    /\ selPc \in {"idle", "done"}
    /\ patPc \in {"idle", "done"}
    /\ selCalls + trCalls + colCalls < MaxSelectCalls
    /\ colCalls' = colCalls + 1
    /\ sceneBefore' = SceneNow
    /\ lastTool' = op
    /\ LET after == IF known
                    THEN apply_color_to_collection([objMats |-> objMats, materials |-> materials],
                             colls, objs, collection_name, color, force_new_material)
                    ELSE [result |-> FALSE, objMats |-> objMats, materials |-> materials]
       IN  /\ colCall' = [op |-> op, collection_name |-> collection_name, color |-> color,
                          result |-> after.result]
           /\ objMats' = after.objMats
           /\ materials' = after.materials
    /\ UNCHANGED <<sceneVars, fsVars, exportVars, importVars, analysisVars, alignVars, renameVars,
                   selectVars, patVars, trCall, trCalls>>

ApplyColorToCollection(collection_name, color, force_new_material) ==
    ColorCall("apply_color_to_collection", collection_name, color, force_new_material, TRUE)

ApplyColorToCollectionSimple(collection_name, color) ==
    ColorCall("apply_color_to_collection_simple", collection_name, color, FALSE, TRUE)

ApplyPresetColor(collection_name, color_name) ==
    LET hits == {k \in 1..Len(get_color_presets) : get_color_presets[k][1] = color_name}
    IN  ColorCall("apply_preset_color", collection_name,
                  IF hits = {} THEN <<>> ELSE get_color_presets[SetMin(hits)][2], TRUE, hits # {})

(***************************************************************************)
(* Scenes and arguments the selector is called with                        *)
(***************************************************************************)
ColorTargets == {sSubB, sZzz}
ColorChoices == {<<0, 0, 80, 100>>}
ColorNames == {<<"b","l","e","u">>, sZzz}

SelectQueries == {sB, sProjA, sEmptyColl, sZzz}
SelectPatterns == {sIfcProject, sB, sZzz}
TransparencyCalls == {<<50, None>>, <<50, sSubB>>, <<150, sSubB>>, <<50, sZzz>>}
sTransparent == <<"T","r","a","n","s","p","a","r","e","n","t","_">>


InitSelect ==
    /\ AnalysisIdle
    /\ \E linkedTwice \in BOOLEAN : colls = AlignColls(linkedTwice, sEmptyColl)
    /\ objs = AlignObjs(1, "plain")
    /\ selected \in {{}, {6}}
    /\ sceneRoot = [children |-> <<1, 2, 5, 6>>, objects |-> <<>>]
    /\ fsGlb = <<>> /\ fsElem = <<>> /\ fsProp = <<>> /\ fsIndex = <<>>
    /\ fsLog = <<>> /\ fsDirs = {}
    /\ ExportIdle
    /\ ImportIdle
    /\ AlignIdle
    /\ hidden \in {{}, {5}}
    /\ selPc = "idle"
    /\ selCall = NoSelectCall
    /\ selAnalysis = EmptyDict
    /\ selObjects = <<>>
    /\ selExpected = 0
    /\ selPolls = 0
    /\ selSlept = 0
    /\ selSeen = 0
    /\ selResult = EmptyDict
    /\ selCalls = 0
    /\ RenameIdle
    /\ patPc = "idle"
    /\ patCall = NoPatternCall
    /\ patQueue = <<>>
    /\ patResults = <<>>
    /\ patResult = EmptyDict
    /\ objMats = << <<>>, <<>>, <<>>, <<>>, <<1>>, <<>> >>
    /\ materials = << [name |-> sWallW, use_nodes |-> FALSE, has_bsdf |-> TRUE,
                       base_color |-> <<80, 80, 80, 100>>, alpha |-> 100, blend_method |-> "OPAQUE"] >>
    /\ trCall = NoTransparencyCall
    /\ trCalls = 0
    /\ colCall = NoColorCall
    /\ colCalls = 0
    /\ sceneBefore = NoScene
    /\ lastTool = "none"

Poll == \E count \in {0, Cardinality(selected)} : SelectPoll(count)

NextSelect ==
    \/ \E n \in SelectQueries : \E include_hidden \in BOOLEAN : SelectBegin(n, include_hidden)
    \/ Poll
    \/ SelectReturn
    \/ \E pattern \in SelectPatterns : \E include_hidden \in BOOLEAN :
           PatternBegin(pattern, include_hidden)
    \/ PatternNext
    \/ \E call \in TransparencyCalls : ApplyTransparency(call[1], sTransparent, call[2])
    \/ \E n \in ColorTargets : \E color \in ColorChoices : ApplyColorToCollection(n, color, TRUE)
    \/ \E color \in ColorChoices : ApplyColorToCollectionSimple(sSubB, color)
    \/ \E color_name \in ColorNames : ApplyPresetColor(sSubB, color_name)

\* the steps of a running call, by the position they leave and the counter
\* they advance
PollStep == selPc = "wait" /\ selPolls' = selPolls + 1
ReturnStep == selPc = "refresh" /\ selPc' = "done"

\* the call runs on Blender's main thread and time.sleep returns: a loop
\* iteration that can be taken is taken, and the code after the loop runs
SpecSelect == InitSelect /\ [][NextSelect]_vars /\ WF_selPolls(PollStep) /\ WF_selPc(ReturnStep)

(***************************************************************************)
(* Properties of the selector                                              *)
(***************************************************************************)
\* C9: the wait of select_collection_complete terminates: at most 20 polls,
\* 0.5 s slept after each poll that reads fewer than the expected count and
\* after no other (10 s at most), no poll after the first one that reads
\* the expected count or more, and the call returns its result even when
\* the count never reaches the expected one.
C9_WaitTerminates ==
    /\ [](selPolls <= 20 /\ selSlept <= 100)
    /\ [][selPolls' = selPolls + 1 =>
            /\ selPc = "wait"
            /\ selSeen' < selExpected => (selSlept' = selSlept + 5)
            /\ selSeen' >= selExpected => (selSlept' = selSlept /\ selPc' # "wait")]_vars
    /\ (selPc = "wait") ~> (selPc = "done" /\ selResult # EmptyDict)

\* a call returned success after 20 polls that all read fewer than expected
C9_Witness ==
    /\ selPc = "done"
    /\ selResult # EmptyDict
    /\ selResult.success = TRUE
    /\ selPolls = 20
    /\ selSlept = 100
    /\ selSeen < selExpected

\* the objects that were hidden when the last call began
HiddenBefore == sceneBefore.hidden

\* C13: a select_collection_complete that returns success with
\* include_hidden = False has selected no object that was hidden when the
\* call began, and lists none of them in selected_objects
C13_HonoursIncludeHidden ==
    (/\ lastTool = "select_collection_complete"
     /\ selPc = "done"
     /\ selResult.success
     /\ ~selCall.include_hidden)
        => \A o \in HiddenBefore :
               /\ o \notin selected
               /\ \A i \in 1..Len(selResult.selected_objects) :
                      selResult.selected_objects[i] # objs[o].name

\* C14: at the step where select_by_pattern returns success, the selection
\* holds the objects of every collection whose name contains the pattern
C14_PatternSelectsAllMatches ==
    [][ (patPc = "call" /\ patPc' = "done" /\ patResult'.success)
            => \A c \in 1..Len(colls) :
                   Contains(patCall.pattern, colls[c].name)
                       => \A i \in 1..Len(colls[c].objects) : colls[c].objects[i] \in selected' ]_vars

\* the last call was given a collection name that matches no collection
SelectionNotFound ==
    /\ lastTool = "select_collection_complete"
    /\ selPc = "done"
    /\ NoMatch(selCall.collection_name)
TransparencyNotFound ==
    /\ lastTool = "apply_transparency"
    /\ trCall.collection_name # None
    /\ trCall.collection_name # <<>>
    /\ NoMatch(trCall.collection_name)

\* C19: after a select_collection_complete or an apply_transparency whose
\* collection name matches no collection, the selected objects, the hidden
\* objects and the materials are what they were when the call began
C19_NotFoundLeavesScene ==
    (SelectionNotFound \/ TransparencyNotFound)
        => /\ selected = sceneBefore.selected
           /\ hidden = sceneBefore.hidden
           /\ objMats = sceneBefore.objMats
           /\ materials = sceneBefore.materials

\* the batch the importer is about to process has a glb file that does not
\* exist
MissingGlb ==
    /\ impPc = "batches"
    /\ bi <= Len(batch_map)
    /\ ~PathExists(ResolvedGlbPath(impCfg, batch_map[bi].key[3]), DOMAIN fsGlb, fsDirs)

\* C18: the iteration of a batch whose glb file is missing leaves the scene
\* as it was (no collection created, no object linked or unlinked) and goes
\* on to the next batch
C18_MissingGlbLeavesScene ==
    [][ (MissingGlb /\ bi' = bi + 1)
            => /\ colls' = colls
               /\ objs' = objs
               /\ sceneRoot' = sceneRoot
               /\ impPc' = "batches" ]_vars

(***************************************************************************)
(* Properties of the aligner's computations                                *)
(***************************************************************************)
CollByName(n) == CHOOSE c \in 1..Len(colls) : colls[c].name = n

\* the number of objects met when the collections of todo and their
\* descendants are visited
RECURSIVE VisitCount(_, _)
VisitCount(cs, todo) ==
    IF todo = <<>> THEN 0
    ELSE Len(cs[Head(todo)].objects) + VisitCount(cs, cs[Head(todo)].children)
         + VisitCount(cs, Tail(todo))

IsAxisMin(S, i, v) == (\E o \in S : objs[o].loc[i] = v) /\ (\A o \in S : objs[o].loc[i] >= v)
IsAxisMax(S, i, v) == (\E o \in S : objs[o].loc[i] = v) /\ (\A o \in S : objs[o].loc[i] <= v)

BoxOf(a) ==
    LET c == CollByName(a.collection_name)
        S == SubtreeObjects(colls, c)
        ps == a.position_stats
    IN  /\ a.total_objects = VisitCount(colls, <<c>>)
        /\ S # {} =>
              /\ \A i \in 1..3 :
                    /\ IsAxisMin(S, i, ps.min[i])
                    /\ IsAxisMax(S, i, ps.max[i])
                    /\ 2 * ps.center[i] = ps.min[i] + ps.max[i]
              /\ ps.bounds.width = ps.max[1] - ps.min[1]
              /\ ps.bounds.depth = ps.max[2] - ps.min[2]
              /\ ps.bounds.height = ps.max[3] - ps.min[3]

DistanceReported == alCall.op = "analyze_collections_distance" /\ alResult.success

\* C15: in a distance report, the position analysis of each collection
\* whose subtree holds an object has per axis the minimum and the maximum
\* coordinate over all objects of the subtree, center = (min + max) / 2,
\* width, depth and height equal to the x, y and z extents, and
\* total_objects equal to the number of objects visited
C15_BoundingBox ==
    DistanceReported =>
        /\ BoxOf(alResult.collection1.analysis)
        /\ BoxOf(alResult.collection2.analysis)

\* a distance report on a collection with a child collection whose largest
\* x coordinate is that of a MESH object
C15_Witness ==
    /\ DistanceReported
    /\ Len(alResult.collection2.analysis.mesh_objects) > 0
    /\ Len(alResult.collection2.analysis.empty_objects) > 0
    /\ alResult.collection2.analysis.total_objects >= 3
    /\ alResult.collection2.analysis.position_stats.bounds.width > 0
    /\ \A e \in Range(alResult.collection2.analysis.empty_objects) :
           e.location[1] < alResult.collection2.analysis.position_stats.max[1]

PreciseReported == alCall.op = "analyze_precise_alignment" /\ alResult.success

\* the EMPTY objects of category cat in the subtree of the collection that n
\* resolves to
ReferenceObjects(n, cat) ==
    {o \in SubtreeObjects(colls, find_collection(colls, n)) :
        objs[o].type = "EMPTY" /\ extract_ifc_category(objs[o].name) = cat}

Tokens(points) == {points[i].specific_name : i \in 1..Len(points)}

\* points lists the objects of S with their token and location, by ascending Z
IsReferenceList(points, S) ==
    /\ {points[i].name : i \in 1..Len(points)} = {objs[o].name : o \in S}
    /\ \A i \in 1..Len(points) :
          /\ points[i].specific_name = extract_specific_name(points[i].name)
          /\ \E o \in S : objs[o].name = points[i].name /\ objs[o].loc = points[i].location
    /\ \A i, j \in 1..Len(points) : i < j => points[i].location[3] <= points[j].location[3]

\* C16: in a precise report each collection's reference points are the
\* EMPTY objects of its subtree whose category is reference_category, by
\* ascending Z, and exact_matches holds exactly one pair for each name token
\* of both lists and no other pair, each pair joining two points of its token
C16_PairsByToken ==
    PreciseReported =>
        LET points1 == alResult.collection1.reference_points
            points2 == alResult.collection2.reference_points
            matches == alResult.alignment_analysis.exact_matches
            shared == Tokens(points1) \cap Tokens(points2)
        IN  /\ IsReferenceList(points1, ReferenceObjects(alCall.c1, alCall.category))
            /\ IsReferenceList(points2, ReferenceObjects(alCall.c2, alCall.category))
            /\ \A t \in shared : Cardinality({k \in 1..Len(matches) : matches[k].name = t}) = 1
            /\ \A k \in 1..Len(matches) :
                  /\ matches[k].name \in shared
                  /\ matches[k].point1 \in Range(points1)
                  /\ matches[k].point2 \in Range(points2)
                  /\ matches[k].point1.specific_name = matches[k].name
                  /\ matches[k].point2.specific_name = matches[k].name

\* a precise report where collection 1 holds two points of one token, the
\* search met the points out of elevation order, and two tokens are shared
C16_Witness ==
    /\ PreciseReported
    /\ Len(alResult.alignment_analysis.exact_matches) = 2
    /\ \E i, j \in 1..Len(alResult.collection1.reference_points) :
          /\ i < j
          /\ alResult.collection1.reference_points[i].specific_name
                = alResult.collection1.reference_points[j].specific_name
          /\ alResult.collection1.reference_points[i].name
                # alResult.collection1.reference_points[j].name
    /\ alResult.collection2.reference_points[1].name = sRefN2

\* C17: in a distance report the centre recommendation is issued iff
\* center_distance > 100, the recommendation of an axis iff that axis
\* distance > 50, the list is never empty and is the single 'well aligned'
\* message exactly when no threshold is exceeded; alignment_issues flags the
\* centre iff center_distance > 100 and the height iff the z distance > 50
C17_ThresholdGates ==
    DistanceReported =>
        LET d == alResult.distance_analysis
            issued == Range(alResult.alignment_recommendations)
            issues == Range(d.alignment_issues)
            far == d.center_distance_sq > 100 * 100
        IN  /\ "centers" \in issued <=> far
            /\ "x" \in issued <=> d.axis_distances.x > 50
            /\ "y" \in issued <=> d.axis_distances.y > 50
            /\ "vertical" \in issued <=> d.axis_distances.z > 50
            /\ alResult.alignment_recommendations # <<>>
            /\ "aligned" \in issued <=> alResult.alignment_recommendations = <<"aligned">>
            /\ "aligned" \in issued <=>
                  ~(far \/ d.axis_distances.x > 50 \/ d.axis_distances.y > 50
                    \/ d.axis_distances.z > 50)
            /\ "centers" \in issues <=> far
            /\ "height" \in issues <=> d.axis_distances.z > 50

\* a distance report with x and z distances of exactly 50 and a y distance
\* and a centre distance over their thresholds
C17_Witness ==
    /\ DistanceReported
    /\ alResult.distance_analysis.axis_distances.x = 50
    /\ alResult.distance_analysis.axis_distances.z = 50
    /\ alResult.distance_analysis.axis_distances.y > 50
    /\ alResult.distance_analysis.center_distance_sq > 100 * 100
    /\ alResult.alignment_recommendations = <<"centers", "y">>

\* the place of a point, and of the first point of a token, in a list
PlaceOf(points, point) == SetMin({i \in 1..Len(points) : points[i] = point})
FirstOfToken(points, token) ==
    SetMin({i \in 1..Len(points) : points[i].specific_name = token})

AbsDiff(a, b) == IF a < b THEN b - a ELSE a - b

\* the primary reference is a matched pair of smallest absolute Z difference
\* and the recommended displacement is its location in collection 1 minus
\* its location in collection 2; None and (0, 0, 0) without a matched pair
PrimaryIsClosest(analysis) ==
    LET matches == analysis.exact_matches
        primary == analysis.primary_reference
    IN  IF matches = <<>>
        THEN /\ primary = None
             /\ analysis.recommended_displacement = <<0, 0, 0>>
        ELSE /\ primary \in Range(matches)
             /\ \A k \in 1..Len(matches) :
                    AbsDiff(primary.point1.location[3], primary.point2.location[3])
                        <= AbsDiff(matches[k].point1.location[3], matches[k].point2.location[3])
             /\ \A i \in 1..3 :
                    analysis.recommended_displacement[i]
                        = primary.point1.location[i] - primary.point2.location[i]

TiedWithPrimary(analysis) ==
    {k \in 1..Len(analysis.exact_matches) :
        AbsDiff(analysis.exact_matches[k].point1.location[3],
                analysis.exact_matches[k].point2.location[3])
            = AbsDiff(analysis.primary_reference.point1.location[3],
                      analysis.primary_reference.point2.location[3])}

\* C20: in a precise report the primary reference is the matched pair of
\* smallest absolute Z difference, on ties the pair whose point comes first
\* in collection 1's elevation order; the recommended displacement is that
\* pair's location in collection 1 minus its location in collection 2, and
\* without a matched pair they are None and (0, 0, 0)
C20_PrimaryEarliestPoint ==
    PreciseReported =>
        LET analysis == alResult.alignment_analysis
            points1 == alResult.collection1.reference_points
        IN  /\ PrimaryIsClosest(analysis)
            /\ analysis.exact_matches # <<>> =>
                  \A k \in TiedWithPrimary(analysis) :
                      PlaceOf(points1, analysis.primary_reference.point1)
                          <= PlaceOf(points1, analysis.exact_matches[k].point1)

\* C20 amended: as C20, but on ties the primary reference is the pair whose
\* name token occurs first in collection 1's elevation order
C20_PrimaryEarliestToken ==
    PreciseReported =>
        LET analysis == alResult.alignment_analysis
            points1 == alResult.collection1.reference_points
        IN  /\ PrimaryIsClosest(analysis)
            /\ analysis.exact_matches # <<>> =>
                  \A k \in TiedWithPrimary(analysis) :
                      FirstOfToken(points1, analysis.primary_reference.name)
                          <= FirstOfToken(points1, analysis.exact_matches[k].name)

\* a precise report with two pairs of equal Z difference where the primary
\* pair joins the later point of a token that collection 1 holds twice
C20_Witness ==
    /\ PreciseReported
    /\ Cardinality(TiedWithPrimary(alResult.alignment_analysis)) = 2
    /\ PlaceOf(alResult.collection1.reference_points,
               alResult.alignment_analysis.primary_reference.point1) = 3
    /\ alResult.alignment_analysis.recommended_displacement = <<6, 2, 4>>

(***************************************************************************)
(* Properties of the lookups and of the name token                         *)
(***************************************************************************)
HasExact(q) == \E c \in 1..Len(colls) : colls[c].name = q
Containing(q) == {c \in 1..Len(colls) : Contains(q, colls[c].name)}

\* the collection that analysis describes is the one the query q stands for:
\* the collection named q, or else the first one whose name contains q
ResolvesAs(q, analysis) ==
    IF HasExact(q) THEN analysis.collection_name = q
    ELSE /\ Containing(q) # {}
         /\ \E c \in Containing(q) :
               /\ analysis.collection_name = colls[c].name
               /\ \A d \in Containing(q) : c <= d

\* C21: _find_collection returns the collection whose name equals the query,
\* whatever the order and the earlier names that contain it; otherwise the
\* first collection in container order whose name contains the query; and
\* None iff no collection name contains the query
C21_ExactThenFirstPattern ==
    alCall.op = "analyze_collections_distance" =>
        /\ alResult.success <=> (Containing(alCall.c1) # {} /\ Containing(alCall.c2) # {})
        /\ alResult.success =>
              /\ ResolvesAs(alCall.c1, alResult.collection1.analysis)
              /\ ResolvesAs(alCall.c2, alResult.collection2.analysis)

\* the query 'B' was resolved to the collection named 'B', which comes after
\* two collections whose names contain 'B'
C21_Witness ==
    /\ alCall.op = "analyze_collections_distance"
    /\ alResult.success
    /\ alCall.c1 = sB
    /\ HasExact(sB)
    /\ Cardinality(Containing(sB)) = 3
    /\ alResult.collection1.analysis.collection_name = sB
    /\ alResult.collection1.analysis.total_objects = 0

\* s without a duplicate suffix .001, .002, ... at its end
WithoutDuplicateSuffix(s) ==
    IF /\ Len(s) >= 4
       /\ s[Len(s) - 3] = "."
       /\ \A k \in (Len(s) - 2)..Len(s) : IsDigit(s[k])
    THEN SubSeq(s, 1, Len(s) - 4)
    ELSE s

\* the token the claim describes: the part after the first '/', without a
\* duplicate suffix; the whole name when it has no '/'
SuffixFreeToken(name) ==
    IF Contains(<<"/">>, name) THEN WithoutDuplicateSuffix(AfterFirst(name, "/")) ELSE name

\* C22: the name token of every reference point of a precise report is its
\* name after the first '/' with only a numeric duplicate suffix removed
C22_TokenDropsOnlySuffix ==
    PreciseReported =>
        \A point \in Range(alResult.collection1.reference_points)
                     \cup Range(alResult.collection2.reference_points) :
            point.specific_name = SuffixFreeToken(point.name)

(***************************************************************************)
(* simple_tiling_decomposer.py: tiling of the level-5 footprint            *)
(*                                                                         *)
(* A length is an integer count of 1/1 024 000 m (1 mm = 1024), so that    *)
(* the module sizes 14.63 m and 4.267 m and the 1 m grid are integers.     *)
(* meshVerts[o] holds matrix_world @ vertex.co for the vertices of object  *)
(* o.  A coordinate a mesh of the scene holds is a binary float: the       *)
(* model takes the multiples of 1/1024 m (of 1000 here), whose sums and    *)
(* differences the script's float arithmetic computes without rounding,    *)
(* so that int(a / b) is a \div b on the non-negative values it divides    *)
(* (a decimal such as 0.4 m is no value of a float: 1.4 - 0.4 computed     *)
(* on the nearest floats is below 1).  The multiples of 14.63 and 4.267    *)
(* the script adds are at least 0.001 away from a whole number of metres   *)
(* for fewer than 100 columns and 1000 rows, far more than the rounding of *)
(* those sums.  An overlap ratio occupied / total is the pair              *)
(* <<occupied, total>>.                                                    *)
(***************************************************************************)
sMDANicolet == <<"M","D","A","-","N","i","c","o","l","e","t">>
sSTRWord == <<"S","T","R">>
sNIVEAU5 == <<"N","I","V","E","A","U"," ","5">>
sSimpleTiling == <<"S","I","M","P","L","E","_","T","I","L","I","N","G">>
sRealFootprint == <<"R","e","a","l","_","F","o","o","t","p","r","i","n","t">>
sRealFootprintMaterial == sRealFootprint \o <<"_","M","a","t","e","r","i","a","l">>
sModuleUnderscore == <<"M","o","d","u","l","e","_">>
sModuleMaterialUnderscore == <<"M","o","d","u","l","e","_","M","a","t","e","r","i","a","l","_">>

MODULE_WIDTH == 4369408
MODULE_LENGTH == 14981120
GRID_SIZE == 1024000
OVERLAP_PERCENT == 1


SetMax(S) == CHOOSE x \in S : \A y \in S : y <= x

\* the first collection whose name holds the three words, 0 when none does
structure_collection(cs) ==
    LET hits == {i \in 1..Len(cs) : /\ Contains(sMDANicolet, cs[i].name)
                                    /\ Contains(sSTRWord, cs[i].name)
                                    /\ Contains(sNIVEAU5, cs[i].name)}
    IN  IF hits = {} THEN 0 ELSE SetMin(hits)

\* [obj for obj in target_collection.objects if obj.type == 'MESH']
structure_objects(cs, os, target) ==
    SelectSeq(cs[target].objects, LAMBDA o : os[o].type = "MESH")

all_vertices(mv, sobjs) == UNION {mv[sobjs[k]] : k \in 1..Len(sobjs)}

\* get_building_bounds() once the vertices are collected (there is one)
bounds_of(verts) ==
    LET min_x == SetMin({v[1] : v \in verts})
        max_x == SetMax({v[1] : v \in verts})
        min_y == SetMin({v[2] : v \in verts})
        max_y == SetMax({v[2] : v \in verts})
        min_z == SetMin({v[3] : v \in verts})
        max_z == SetMax({v[3] : v \in verts})
        grid_width == ((max_x - min_x) \div GRID_SIZE) + 1
        grid_height == ((max_y - min_y) \div GRID_SIZE) + 1
    IN  [width |-> max_x - min_x,
         length |-> max_y - min_y,
         height |-> max_z - min_z,
         min |-> <<min_x, min_y, min_z>>,
         max |-> <<max_x, max_y, max_z>>,
         footprint_grid |->
             {c \in {<<(v[1] - min_x) \div GRID_SIZE, (v[2] - min_y) \div GRID_SIZE>> : v \in verts} :
                 /\ 0 <= c[1] /\ c[1] < grid_width
                 /\ 0 <= c[2] /\ c[2] < grid_height},
         grid_size |-> GRID_SIZE,
         grid_width |-> grid_width,
         grid_height |-> grid_height]

\* min() of an empty sequence
ValueError == [raised |-> "ValueError"]

\* get_building_bounds(): None, ValueError raised, or the bounds
get_building_bounds(cs, os, mv) ==
    LET target == structure_collection(cs)
    IN  IF target = 0 THEN NoneDict
        ELSE LET sobjs == structure_objects(cs, os, target)
             IN  IF sobjs = <<>> THEN NoneDict
                 ELSE IF all_vertices(mv, sobjs) = {} THEN ValueError
                 ELSE bounds_of(all_vertices(mv, sobjs))

\* calculate_footprint_overlap(...): occupied cells / cells of the clipped range, 0 when empty
calculate_footprint_overlap(module_x, module_y, module_length, module_width, footprint_grid, grid_size, min_x, min_y, grid_width, grid_height) ==
    LET start_grid_x == (module_x - min_x) \div grid_size
        start_grid_y == (module_y - min_y) \div grid_size
        end_grid_x == (module_x + module_length - min_x) \div grid_size
        end_grid_y == (module_y + module_width - min_y) \div grid_size
        range_x == (IF 0 > start_grid_x THEN 0 ELSE start_grid_x) ..
                   ((IF grid_width < end_grid_x + 1 THEN grid_width ELSE end_grid_x + 1) - 1)
        range_y == (IF 0 > start_grid_y THEN 0 ELSE start_grid_y) ..
                   ((IF grid_height < end_grid_y + 1 THEN grid_height ELSE end_grid_y + 1) - 1)
        total_cells == Cardinality(range_x) * Cardinality(range_y)
        occupied_cells == Cardinality({c \in footprint_grid : c[1] \in range_x /\ c[2] \in range_y})
    IN  IF total_cells > 0 THEN <<occupied_cells, total_cells>> ELSE <<0, 1>>

\* overlap_ratio > 0.5
overlap_above_half(overlap_ratio) == overlap_ratio[1] * 2 > overlap_ratio[2]

\* overlap_ratio > 0.01
overlap_above_threshold(overlap_ratio) == overlap_ratio[1] * 100 > OVERLAP_PERCENT * overlap_ratio[2]

\* the module dict of a grid position, before its id is known
module_at(bb, col, row) ==
    LET module_x == bb.min[1] + (col * MODULE_LENGTH)
        module_y == bb.min[2] + (row * MODULE_WIDTH)
    IN  [position |-> <<module_x, module_y, 0>>,
         dimensions |-> <<MODULE_LENGTH, MODULE_WIDTH, 0>>,
         overlap_ratio |-> calculate_footprint_overlap(module_x, module_y, MODULE_LENGTH,
                               MODULE_WIDTH, bb.footprint_grid, bb.grid_size, bb.min[1],
                               bb.min[2], bb.grid_width, bb.grid_height),
         rotated |-> FALSE,
         grid_pos |-> <<col, row>>]

\* create_simple_tiling_modules(building_bounds): rows outside, columns inside
create_simple_tiling_modules(bb) ==
    LET num_rows == (bb.length \div MODULE_WIDTH) + 2
        num_cols == (bb.width \div MODULE_LENGTH) + 2
        tried == [k \in 1..(num_rows * num_cols) |->
                     module_at(bb, (k - 1) % num_cols, (k - 1) \div num_cols)]
        kept == SelectSeq(tried, LAMBDA m : overlap_above_threshold(m.overlap_ratio))
    IN  [k \in 1..Len(kept) |->
            [id |-> k - 1,
             position |-> kept[k].position,
             dimensions |-> kept[k].dimensions,
             overlap_ratio |-> kept[k].overlap_ratio,
             rotated |-> kept[k].rotated,
             grid_pos |-> kept[k].grid_pos]]

\* bpy.data.collections.remove(cs[i]): the collection leaves the file and every parent
without_collection(refs, i) ==
    LET left == SelectSeq(refs, LAMBDA c : c # i)
    IN  [k \in 1..Len(left) |-> IF left[k] > i THEN left[k] - 1 ELSE left[k]]

collections_remove(cs, i) ==
    [k \in 1..(Len(cs) - 1) |->
        LET c == cs[IF k < i THEN k ELSE k + 1]
        IN  Coll(c.name, without_collection(c.children, i), c.objects)]

\* the corners of the occupied cells, once remove_doubles has merged them
footprint_vertices(bb) ==
    UNION {{<<bb.min[1] + (c[1] + dx) * bb.grid_size, bb.min[2] + (c[2] + dy) * bb.grid_size, -10240>> :
               dx \in {0, 1}, dy \in {0, 1}} : c \in bb.footprint_grid}

module_vertices(module) ==
    LET x == module.position[1]
        y == module.position[2]
        length == module.dimensions[1]
        width == module.dimensions[2]
    IN  {<<x, y, 10240>>, <<x + length, y, 10240>>, <<x + length, y + width, 10240>>,
         <<x, y + width, 10240>>}

\* bpy.data.materials.new(name) with the nodes the script gives it
tiling_material(mats, name, colour, alpha, blend) ==
    [name |-> UniqueName({mats[k].name : k \in 1..Len(mats)}, name),
     use_nodes |-> TRUE, has_bsdf |-> TRUE, base_color |-> colour, alpha |-> alpha,
     blend_method |-> blend]

\* create_real_footprint / create_module_visualization: one more object with its material
RECURSIVE add_visuals(_, _, _)
add_visuals(sc, todo, bb) ==
    IF todo = <<>> THEN sc
    ELSE LET what == Head(todo)
             foot == what = NoneDict
             oname == IF foot THEN sRealFootprint ELSE sModuleUnderscore \o StrNat(what.id)
             mname == IF foot THEN sRealFootprintMaterial
                      ELSE sModuleMaterialUnderscore \o StrNat(what.id)
             o == Obj(UniqueName({sc.objs[k].name : k \in 1..Len(sc.objs)}, oname),
                      "MESH", <<0, 0, 0>>, <<>>)
             mat == IF foot THEN tiling_material(sc.materials, mname, <<80, 10, 10, 40>>, 40, "BLEND")
                    ELSE tiling_material(sc.materials, mname, <<10, 80, 10, 80>>, 100, "OPAQUE")
         IN  add_visuals([objs |-> Append(sc.objs, o),
                          meshVerts |-> Append(sc.meshVerts,
                                               IF foot THEN footprint_vertices(bb)
                                               ELSE module_vertices(what)),
                          materials |-> Append(sc.materials, mat),
                          objMats |-> Append(sc.objMats, <<Len(sc.materials) + 1>>)],
                         Tail(todo), bb)

\* tile_building_footprint(), step 1: get_building_bounds()
TileGetBounds ==
    /\ tiPc = "idle"
    /\ LET bb == get_building_bounds(colls, objs, meshVerts)
       IN  /\ building_bounds' = IF bb = ValueError THEN NoneDict ELSE bb
           /\ tiPc' = IF bb = ValueError THEN "raised"
                      ELSE IF bb = NoneDict THEN "failed" ELSE "bounds"
    /\ UNCHANGED <<sceneVars, fsVars, exportVars, importVars, toolVars,
                   meshVerts, modules, usageVars>>

\* tile_building_footprint(), step 2: create_simple_tiling_modules(building_bounds)
TileCreateModules ==
    /\ tiPc = "bounds"
    /\ modules' = create_simple_tiling_modules(building_bounds)
    /\ tiPc' = "tiled"
    /\ UNCHANGED <<sceneVars, fsVars, exportVars, importVars, toolVars,
                   meshVerts, building_bounds, usageVars>>

\* tile_building_footprint(), step 3: visualize_tiling_result(modules, building_bounds)
TileVisualize ==
    /\ tiPc = "tiled"
    /\ LET old == CollIndex(colls, sSimpleTiling)
           cs1 == IF old # 0 THEN collections_remove(colls, old) ELSE colls
           root1 == IF old # 0 THEN without_collection(sceneRoot.children, old)
                    ELSE sceneRoot.children
           after == add_visuals([objs |-> objs, meshVerts |-> meshVerts,
                                 materials |-> materials, objMats |-> objMats],
                                <<NoneDict>> \o modules, building_bounds)
           fresh == [k \in 1..(Len(after.objs) - Len(objs)) |-> Len(objs) + k]
       IN  /\ colls' = Append(cs1, Coll(sSimpleTiling, <<>>, fresh))
           /\ sceneRoot' = [sceneRoot EXCEPT !.children = Append(root1, Len(cs1) + 1)]
           /\ objs' = after.objs
           /\ meshVerts' = after.meshVerts
           /\ materials' = after.materials
           /\ objMats' = after.objMats
    /\ tiPc' = "done"
    /\ UNCHANGED <<selected, fsVars, exportVars, importVars, alignVars, renameVars,
                   selectVars, patVars, trCall, trCalls, callVars, colorVars,
                   building_bounds, modules, usageVars>>

\* vertices at multiples of 1/1024 m: next to the module edges at 14.63 m and
\* 4.267 m, at 30.5 m, 9.1 m and below the origin, and two whose x are 0.5 m
\* and 1.5 m, a whole metre apart
TilePoints ==
    {<<0, 0, 0>>, <<14981000, 0, 0>>, <<31232000, 0, 3072000>>,
     <<0, 4369000, 0>>, <<14848000, 4403000, 0>>, <<31232000, 4369000, 3072000>>,
     <<0, 9318000, 0>>, <<14981000, 9318000, 3072000>>, <<31232000, 9318000, 0>>,
     <<-2560000, -1229000, 0>>, <<512000, 256000, 0>>, <<1536000, 2304000, 0>>}

TileVertexSets == {V \in SUBSET TilePoints : Cardinality(V) <= MaxVertices}

sStrNiveau5 == <<"M","D","A","-","N","i","c","o","l","e","t","/","S","T","R","/","N","I","V","E","A","U"," ","5">>
sArcNiveau5 == <<"M","D","A","-","N","i","c","o","l","e","t","/","A","R","C","/","N","I","V","E","A","U"," ","5">>

TileKinds == {"target", "other", "nomesh"}

TileColls(kind, prior) ==
    << Coll(IF kind = "other" THEN sArcNiveau5 ELSE sStrNiveau5, <<>>, <<1, 2>>) >>
    \o (IF prior THEN << Coll(sSimpleTiling, <<>>, <<3>>) >> ELSE <<>>)

TileObjs(kind, prior) ==
    << Obj(sSlabS, IF kind = "nomesh" THEN "EMPTY" ELSE "MESH", <<0, 0, 0>>, <<>>),
       Obj(sRefN1, "EMPTY", <<0, 0, 0>>, <<>>) >>
    \o (IF prior THEN << Obj(sRealFootprint, "MESH", <<0, 0, 0>>, <<>>) >> ELSE <<>>)

InitTiling ==
    /\ \E kind \in TileKinds, prior \in BOOLEAN, V \in TileVertexSets :
          /\ colls = TileColls(kind, prior)
          /\ objs = TileObjs(kind, prior)
          /\ sceneRoot = [children |-> IF prior THEN <<1, 2>> ELSE <<1>>, objects |-> <<>>]
          /\ meshVerts = IF prior THEN <<V, {}, {}>> ELSE <<V, {}>>
          /\ objMats = IF prior THEN << <<>>, <<>>, <<1>> >> ELSE << <<>>, <<>> >>
          /\ materials = IF prior
                         THEN << tiling_material(<<>>, sRealFootprintMaterial, <<80, 10, 10, 40>>, 40, "BLEND") >>
                         ELSE <<>>
    /\ tiPc = "idle" /\ building_bounds = NoneDict /\ modules = <<>>
    /\ usPc = "idle" /\ usage_data = NoneDict /\ total_elements = 0
    /\ selected = {}
    /\ fsGlb = <<>> /\ fsElem = <<>> /\ fsProp = <<>> /\ fsIndex = <<>>
    /\ fsLog = <<>> /\ fsDirs = {}
    /\ ExportIdle
    /\ ImportIdle
    /\ AlignIdle
    /\ SelectorIdle
    /\ RenameIdle

NextTiling == TileGetBounds \/ TileCreateModules \/ TileVisualize

SpecTiling == InitTiling /\ [][NextTiling]_vars

(***************************************************************************)
(* Properties of the tiling                                                *)
(***************************************************************************)
\* the 1 m cell (gx, gy) meets the module at grid position pos: its index is
\* between the truncated start and end of the module on both axes
CellInModule(cell, pos) ==
    /\ (cell[1] + 1) * 1000 > pos[1] * 14630
    /\ cell[1] * 1000 <= (pos[1] + 1) * 14630
    /\ (cell[2] + 1) * 1000 > pos[2] * 4267
    /\ cell[2] * 1000 <= (pos[2] + 1) * 4267

\* metres in the unit of building_bounds
Metres(thousandths) == thousandths * 1024

GridCells == (0..(building_bounds.grid_width - 1)) \X (0..(building_bounds.grid_height - 1))

\* the grid positions create_simple_tiling_modules tries
TriedPositions ==
    (0..((building_bounds.width \div Metres(14630)) + 1)) \X
    (0..((building_bounds.length \div Metres(4267)) + 1))

ClippedRange(pos) == {cell \in GridCells : CellInModule(cell, pos)}

OccupiedIn(pos) == ClippedRange(pos) \cap building_bounds.footprint_grid

KeptPositions == {modules[k].grid_pos : k \in 1..Len(modules)}

\* C23: once the modules are computed, every occupied cell of the footprint
\* grid lies in the cell range of a kept module; a tried position is kept iff
\* occupied / cells of its clipped range (0 for an empty range) is above
\* 0.01; the ratio a module records is that quotient and lies in [0, 1].
C23_TilingCoversFootprint ==
    tiPc \in {"tiled", "done"} =>
        /\ \A cell \in building_bounds.footprint_grid :
              \E pos \in KeptPositions : CellInModule(cell, pos)
        /\ \A pos \in TriedPositions :
              pos \in KeptPositions <=>
                  /\ ClippedRange(pos) # {}
                  /\ Cardinality(OccupiedIn(pos)) * 100 > Cardinality(ClippedRange(pos))
        /\ KeptPositions \subseteq TriedPositions
        /\ \A k \in 1..Len(modules) :
              LET ratio == modules[k].overlap_ratio
              IN  /\ ratio[1] * Cardinality(ClippedRange(modules[k].grid_pos))
                        = Cardinality(OccupiedIn(modules[k].grid_pos)) * ratio[2]
                  /\ 0 <= ratio[1] /\ ratio[1] <= ratio[2] /\ ratio[2] > 0

C23_Witness ==
    /\ tiPc = "done"
    /\ Len(modules) >= 2
    /\ Cardinality(building_bounds.footprint_grid) >= 2
    /\ Cardinality(TriedPositions) > Len(modules)
    /\ \E k \in 1..Len(modules) : modules[k].overlap_ratio[1] < modules[k].overlap_ratio[2]

(***************************************************************************)
(* Properties of the distance analysis                                     *)
(***************************************************************************)
BothHoldObjects(r) ==
    /\ r.collection1.analysis.total_objects > 0
    /\ r.collection2.analysis.total_objects > 0

BoxesMeet(ps1, ps2) ==
    \A i \in 1..3 : ps1.max[i] >= ps2.min[i] /\ ps2.max[i] >= ps1.min[i]

DistanceValues(r) ==
    <<r.distance_analysis.center_distance_sq, r.distance_analysis.min_distance_sq,
      r.distance_analysis.max_distance_sq, r.distance_analysis.axis_distances>>

DistancesOrdered(r) ==
    LET d == r.distance_analysis
        ps1 == r.collection1.analysis.position_stats
        ps2 == r.collection2.analysis.position_stats
    IN  /\ d.min_distance_sq <= d.center_distance_sq
        /\ d.center_distance_sq <= d.max_distance_sq
        /\ d.min_distance_sq = 0 <=> BoxesMeet(ps1, ps2)
        /\ d.axis_distances = [x |-> AbsDiff(ps1.center[1], ps2.center[1]),
                               y |-> AbsDiff(ps1.center[2], ps2.center[2]),
                               z |-> AbsDiff(ps1.center[3], ps2.center[3])]
        /\ d.center_distance_sq = d.axis_distances.x * d.axis_distances.x
                                  + d.axis_distances.y * d.axis_distances.y
                                  + d.axis_distances.z * d.axis_distances.z

\* C24: a distance report on two collections that each hold an object has
\* min_distance <= center_distance <= max_distance (compared as squares),
\* min_distance = 0 exactly when the two boxes overlap or touch on the three
\* axes, center_distance squared equal to the sum of the squared axis
\* distances |center1 - center2|, and the same four values as the report of
\* the call before it when that call had the two names swapped.
C24_DistancesOrderedAndSymmetric ==
    [][(alCall'.op = "analyze_collections_distance" /\ alCalls' > alCalls
        /\ alResult'.success /\ BothHoldObjects(alResult'))
       => /\ DistancesOrdered(alResult')
          /\ (DistanceReported /\ alCall.c1 = alCall'.c2 /\ alCall.c2 = alCall'.c1)
                => DistanceValues(alResult) = DistanceValues(alResult')]_vars

\* the second of two reports on swapped names, for boxes that are apart on
\* one axis and meet on another, with the three distances all different
C24_Witness ==
    /\ DistanceReported /\ alCalls = 2
    /\ BothHoldObjects(alResult)
    /\ alCall.c1 # alCall.c2
    /\ alResult.distance_analysis.min_distance_sq > 0
    /\ alResult.distance_analysis.min_distance_sq < alResult.distance_analysis.center_distance_sq
    /\ alResult.distance_analysis.center_distance_sq < alResult.distance_analysis.max_distance_sq
    /\ \E i \in 1..3 : alResult.collection1.analysis.position_stats.max[i]
                          < alResult.collection2.analysis.position_stats.min[i]
    /\ \E i \in 1..3 : alResult.collection2.analysis.position_stats.max[i]
                          < alResult.collection1.analysis.position_stats.min[i]

(***************************************************************************)
(* Properties of the applied alignment                                     *)
(***************************************************************************)
\* the collection a query names: the one of that name, else the first whose
\* name contains it
Resolved(q) == IF HasExact(q) THEN CollByName(q) ELSE SetMin(Containing(q))

ObjByName(n) == CHOOSE o \in 1..Len(objs) : objs[o].name = n

\* the two subtrees share no object, every object of the second is linked
\* once in it, and the analysis of the call matched a pair
CleanlyAlignable(call, analysis) ==
    LET c1 == Resolved(call.c1)
        c2 == Resolved(call.c2)
    IN  /\ SubtreeObjects(colls, c1) \cap SubtreeObjects(colls, c2) = {}
        /\ VisitCount(colls, <<c2>>) = Cardinality(SubtreeObjects(colls, c2))
        /\ analysis.alignment_analysis.exact_matches # <<>>

Applied == alCall.op = "apply_precise_alignment" /\ alResult.success

PrimaryPair(analysis) ==
    <<analysis.alignment_analysis.primary_reference.point1.name,
      analysis.alignment_analysis.primary_reference.point2.name>>

\* C25: after an apply_precise_alignment on two subtrees without a shared
\* object, the second linking each object once, with a matched pair, the
\* primary reference point of collection 2 is where its counterpart of
\* collection 1 is; an analyze_precise_alignment of the same arguments that
\* follows picks the same primary pair and recommends (0, 0, 0).
C25_AlignmentIdempotent ==
    [][/\ (Applied' /\ alCalls' > alCalls /\ CleanlyAlignable(alCall', alResult'.analysis))
          => LET pair == PrimaryPair(alResult'.analysis)
             IN  objs'[ObjByName(pair[2])].loc = objs'[ObjByName(pair[1])].loc
       /\ (/\ Applied /\ CleanlyAlignable(alCall, alResult.analysis)
           /\ alCalls' > alCalls
           /\ alCall' = [alCall EXCEPT !.op = "analyze_precise_alignment"])
          => /\ alResult'.success
             /\ PrimaryPair(alResult') = PrimaryPair(alResult.analysis)
             /\ alResult'.alignment_analysis.recommended_displacement = <<0, 0, 0>>]_vars

\* an alignment that moved collection 2 on the three axes, chosen among
\* two matched pairs, and left the primary pair at one place
C25_Witness ==
    /\ Applied
    /\ CleanlyAlignable(alCall, alResult.analysis)
    /\ Len(alResult.analysis.alignment_analysis.exact_matches) >= 2
    /\ \A i \in 1..3 : alResult.displacement_applied[i] # 0
    /\ alResult.objects_moved >= 2
    /\ LET pair == PrimaryPair(alResult.analysis)
       IN  objs[ObjByName(pair[2])].loc = objs[ObjByName(pair[1])].loc

(***************************************************************************)
(* Properties of a repeated renaming                                       *)
(***************************************************************************)
\* a rename_to_ifc_hierarchy call that was not a dry run and found its root
RenamedHierarchy ==
    /\ rnCall.op = "rename_to_ifc_hierarchy"
    /\ ~rnCall.dry_run
    /\ rnCall.collection_name # None
    /\ CollIndex(collsBefore, rnCall.collection_name) # 0

\* C26: when rename_to_ifc_hierarchy has renamed a hierarchy and is called
\* again on the renamed root with the same discipline (and the same project
\* code, site and building names), every collection keeps the name the
\* first call gave it.
C26_RenameIdempotent ==
    [][(/\ RenamedHierarchy
        /\ rnCalls' > rnCalls
        /\ rnCall'.op = "rename_to_ifc_hierarchy"
        /\ ~rnCall'.dry_run
        /\ rnCall'.discipline = rnCall.discipline
        /\ rnCall'.collection_name
              = colls[CollIndex(collsBefore, rnCall.collection_name)].name)
       => \A c \in 1..Len(colls) : colls'[c].name = colls[c].name]_vars

(***************************************************************************)
(* Properties of the export directory after whole runs                     *)
(***************************************************************************)
RecordOf(x) == <<x.name, x.storey, x.type, x.discipline, x.glb_path, x.global_id>>

TimesIn(seq, k) == Cardinality({i \in 1..Len(seq) : RecordOf(seq[i]) = k})

\* the (name, value) pairs of the ifc_property rows of an element
PropertiesOfRow(d, r) ==
    {<<p.name, p.value>> : p \in {q \in Range(Get(fsProp, d, <<>>)) : q.element_id = r.id}}

\* C27: between export runs, in every export directory, index.json and the
\* ifc_element table hold the same multiset of (name, storey, type,
\* discipline, glb_path, global_id) records, and the properties of an index
\* entry are the ifc_property rows of each element with the same record.
C27_IndexMatchesTable ==
    expPc = "idle" =>
        \A d \in DOMAIN fsElem \cup DOMAIN fsIndex :
            LET rows == Get(fsElem, d, <<>>)
                entries == Get(fsIndex, d, <<>>)
            IN  /\ \A k \in {RecordOf(r) : r \in Range(rows)} \cup {RecordOf(e) : e \in Range(entries)} :
                      TimesIn(rows, k) = TimesIn(entries, k)
                /\ \A e \in Range(entries) : \A r \in Range(rows) :
                      RecordOf(r) = RecordOf(e)
                          => {<<e.properties[i][1], e.properties[i][2]>> :
                                  i \in 1..Len(e.properties)} = PropertiesOfRow(d, r)

(***************************************************************************)
(* Properties of the file layout shared by the export and the import       *)
(***************************************************************************)
\* the importer configured with the filters of the export
SameFilters == ImportFilters(cfg.project, cfg.building, cfg.discipline, None)

\* C28: for every configuration with a project name, also with a discipline
\* of None or a name that holds a space, the directory whose index.json the
\* importer reads (INDEX_PATH without its last component) and its GLB_DIR
\* are the directory in which the export wrote index.json and the glb
\* directory it made there.
C28_SameLayout ==
    (expPc = "idle" /\ Truthy(cfg.project)) =>
        \A d \in DOMAIN fsIndex :
            /\ BUILDING_DISCIPLINE_PATH(SameFilters) = d
            /\ GLB_DIR(SameFilters) = PathJoin(d, sGlbDir)
            /\ GLB_DIR(SameFilters) \in fsDirs

(***************************************************************************)
(* floor_usage_analyzer.py: analyze_floor_usage, get_floor_usage_data      *)
(*                                                                         *)
(* bim_library.sqlite of the working directory is the ifc_element table    *)
(* fsElem[sCwd]; without the table the SELECT raises and the function      *)
(* returns None.  The returned dict is the record [usage_categories], its  *)
(* entries in the order of the dict; colours are in hundredths.            *)
(***************************************************************************)
sCwd == <<".">>
sNiveau5 == <<"N","I","V","E","A","U"," ","5">>
sNiveau4 == <<"N","I","V","E","A","U"," ","4">>
sEspaceGeneral == <<"E","S","P","A","C","E","_","G","E","N","E","R","A","L">>
sAutre == <<"A","U","T","R","E">>
\* str.lower: every cased character is mapped
RECURSIVE Lower(_)
Lower(s) ==
    IF s = <<>> THEN <<>>
    ELSE (IF \E k \in 1..Len(sCased) : sCased[k] = Head(s)
          THEN sLowerOf[CHOOSE k \in 1..Len(sCased) : sCased[k] = Head(s)]
          ELSE <<Head(s)>>) \o Lower(Tail(s))

\* the keyword lists of categorize_element, in the order of its branches
UsageKeywords ==
    << [category |-> <<"C","H","A","M","B","R","E">>,
        keywords |-> {<<"c","h","a","m","b","r","e">>, <<"b","e","d","r","o","o","m">>, <<"r","o","o","m">>}],
       [category |-> <<"S","A","L","L","E","_","D","E","_","B","A","I","N">>,
        keywords |-> {<<"b","a","i","n">>, <<"b","a","t","h">>, <<"d","o","u","c","h","e">>, <<"s","h","o","w","e","r">>, <<"t","o","i","l","e","t","t","e">>, <<"t","o","i","l","e","t">>, <<"w","c">>}],
       [category |-> <<"C","U","I","S","I","N","E">>,
        keywords |-> {<<"c","u","i","s","i","n","e">>, <<"k","i","t","c","h","e","n">>}],
       [category |-> <<"S","A","L","O","N">>,
        keywords |-> {<<"s","a","l","o","n">>, <<"l","i","v","i","n","g">>, <<"s","é","j","o","u","r">>}],
       [category |-> <<"F","O","Y","E","R">>,
        keywords |-> {<<"f","o","y","e","r">>, <<"e","n","t","r","é","e">>, <<"e","n","t","r","a","n","c","e">>, <<"h","a","l","l">>}],
       [category |-> <<"B","U","R","E","A","U">>,
        keywords |-> {<<"b","u","r","e","a","u">>, <<"o","f","f","i","c","e">>, <<"é","t","u","d","e">>}],
       [category |-> <<"C","O","R","R","I","D","O","R">>,
        keywords |-> {<<"c","o","r","r","i","d","o","r">>, <<"c","o","u","l","o","i","r">>, <<"p","a","s","s","a","g","e">>, <<"h","a","l","l","w","a","y">>}],
       [category |-> <<"R","A","N","G","E","M","E","N","T">>,
        keywords |-> {<<"r","a","n","g","e","m","e","n","t">>, <<"s","t","o","r","a","g","e">>, <<"c","l","o","s","e","t">>}] >>

\* categorize_element(name)
categorize_element(name) ==
    LET name_lower == Lower(name)
        hits == {b \in 1..Len(UsageKeywords) :
                    \E keyword \in UsageKeywords[b].keywords : Contains(keyword, name_lower)}
    IN  IF hits # {} THEN UsageKeywords[SetMin(hits)].category ELSE sEspaceGeneral

\* usage_categories before the rows are counted
usage_categories ==
    << [category |-> <<"C","H","A","M","B","R","E">>, count |-> 0, color |-> <<10, 80, 10, 100>>],
       [category |-> <<"S","A","L","L","E","_","D","E","_","B","A","I","N">>, count |-> 0, color |-> <<80, 10, 80, 100>>],
       [category |-> <<"C","U","I","S","I","N","E">>, count |-> 0, color |-> <<100, 50, 0, 100>>],
       [category |-> <<"S","A","L","O","N">>, count |-> 0, color |-> <<10, 10, 80, 100>>],
       [category |-> <<"F","O","Y","E","R">>, count |-> 0, color |-> <<10, 80, 80, 100>>],
       [category |-> <<"B","U","R","E","A","U">>, count |-> 0, color |-> <<80, 80, 10, 100>>],
       [category |-> <<"C","O","R","R","I","D","O","R">>, count |-> 0, color |-> <<80, 40, 10, 100>>],
       [category |-> <<"R","A","N","G","E","M","E","N","T">>, count |-> 0, color |-> <<60, 60, 60, 100>>],
       [category |-> <<"A","U","T","R","E">>, count |-> 0, color |-> <<50, 50, 50, 100>>] >>

\* SELECT name, type, COUNT(*) ... WHERE storey = 'NIVEAU 5' GROUP BY name, type
\* (the order of the result rows has no effect on the counts)
floor_rows(rows) == SelectSeq(rows, LAMBDA r : r.storey = sNiveau5)

floor_results(rows) ==
    {<<g[1], g[2], Cardinality({i \in 1..Len(rows) : rows[i].storey = sNiveau5
                                                       /\ rows[i].name = g[1] /\ rows[i].type = g[2]})>> :
        g \in {<<r.name, r.type>> : r \in Range(floor_rows(rows))}}

RECURSIVE SumCounts(_)
SumCounts(results) ==
    IF results = {} THEN 0
    ELSE LET g == CHOOSE x \in results : TRUE
         IN  g[3] + SumCounts(results \ {g})

\* the loop over the results: the dict and total_elements
count_usage(results) ==
    [usage_categories |->
        [k \in 1..Len(usage_categories) |->
            [usage_categories[k] EXCEPT !.count =
                SumCounts({g \in results : categorize_element(g[1]) = usage_categories[k].category})]],
     total_elements |->
        SumCounts({g \in results : \E k \in 1..Len(usage_categories) :
                                        categorize_element(g[1]) = usage_categories[k].category})]

\* analyze_floor_usage(), step 1: get_floor_usage_data()
UsageGetData ==
    /\ usPc = "idle"
    /\ usPc' = "returned"
    /\ IF sCwd \notin DOMAIN fsElem
       THEN /\ usage_data' = NoneDict
            /\ total_elements' = 0
       ELSE LET counted == count_usage(floor_results(fsElem[sCwd]))
            IN  /\ usage_data' = [usage_categories |-> counted.usage_categories]
                /\ total_elements' = counted.total_elements
    /\ UNCHANGED <<sceneVars, fsVars, exportVars, importVars, toolVars, tilingVars>>

(***************************************************************************)
(* floor_usage_analyzer.py: create_realistic_floor_usage_visualization     *)
(*                                                                         *)
(* Lengths are in the unit of meshVerts (1/1 024 000 m); the bounding box  *)
(* of a mesh object is that of its vertices (a mesh of the scene holds     *)
(* one, and no object is rotated).  subcollections and category_counts    *)
(* are dicts in insertion order; category_counts gives each main category  *)
(* the number of its objects, the sum of its subcategory counts, which is  *)
(* all the script reads of it.  A text object carries the body of its      *)
(* curve in the field body.                                                *)
(***************************************************************************)
sFloorUsageVisualization == <<"F","L","O","O","R","_","U","S","A","G","E","_","V","I","S","U","A","L","I","Z","A","T","I","O","N">>
sFloorUsageUnderscore == <<"F","L","O","O","R","_","U","S","A","G","E","_">>
sUsagePrismUnderscore == <<"U","s","a","g","e","_","P","r","i","s","m","_">>
sUsageMaterialUnderscore == <<"U","s","a","g","e","_","M","a","t","e","r","i","a","l","_">>
sLabelUnderscore == <<"L","a","b","e","l","_">>
sTextMaterialUnderscore == <<"T","e","x","t","_","M","a","t","e","r","i","a","l","_">>
sINTWord == <<"I","N","T">>
sGENERAL == <<"G","E","N","E","R","A","L">>
sElements == <<" ","é","l","é","m","e","n","t","s",")">>

PRISM_HEIGHT == 102400
LABEL_Z == 2048000
LABEL_STEP == 5120000

\* the keyword lists of the subcategory branches, in their order
SubcategoryKeywords ==
    << [category |-> <<"L","I","T","_","S","O","I","N">>,
        keywords |-> {<<"l","i","t">>, <<"b","e","d">>, <<"s","o","i","n">>}],
       [category |-> <<"P","L","A","F","O","N","D">>,
        keywords |-> {<<"p","l","a","f","o","n","d">>, <<"c","e","i","l","i","n","g">>, <<"c","o","m","p","o","s","é">>, <<"p","l","a","f">>}],
       [category |-> <<"C","L","O","I","S","O","N">>,
        keywords |-> {<<"m","u","r">>, <<"w","a","l","l">>, <<"c","l","o","i","s">>, <<"p","a","r","t","i","t","i","o","n">>}],
       [category |-> <<"P","O","R","T","E">>,
        keywords |-> {<<"p","o","r","t","e">>, <<"d","o","o","r">>}],
       [category |-> <<"F","E","N","E","T","R","E">>,
        keywords |-> {<<"f","e","n","ê","t","r","e">>, <<"w","i","n","d","o","w">>}],
       [category |-> <<"P","L","A","N","C","H","E","R">>,
        keywords |-> {<<"p","l","a","n","c","h","e","r">>, <<"f","l","o","o","r">>, <<"s","o","l">>}],
       [category |-> <<"E","S","C","A","L","I","E","R">>,
        keywords |-> {<<"e","s","c","a","l","i","e","r">>, <<"s","t","a","i","r">>}],
       [category |-> <<"A","S","C","E","N","S","E","U","R">>,
        keywords |-> {<<"a","s","c","e","n","s","e","u","r">>, <<"e","l","e","v","a","t","o","r">>}],
       [category |-> <<"R","A","M","P","E">>,
        keywords |-> {<<"r","a","m","p","e">>, <<"r","a","m","p">>}],
       [category |-> <<"S","A","N","I","T","A","I","R","E">>,
        keywords |-> {<<"t","o","i","l","e","t","t","e">>, <<"w","c">>, <<"b","a","t","h","r","o","o","m">>}],
       [category |-> <<"D","O","U","C","H","E">>,
        keywords |-> {<<"d","o","u","c","h","e">>, <<"s","h","o","w","e","r">>}],
       [category |-> <<"L","A","V","A","B","O">>,
        keywords |-> {<<"l","a","v","a","b","o">>, <<"s","i","n","k">>}],
       [category |-> <<"C","U","I","S","I","N","E">>,
        keywords |-> {<<"c","u","i","s","i","n","e">>, <<"k","i","t","c","h","e","n">>}],
       [category |-> <<"C","H","A","M","B","R","E">>,
        keywords |-> {<<"c","h","a","m","b","r","e">>, <<"b","e","d","r","o","o","m">>}],
       [category |-> <<"S","A","L","O","N">>,
        keywords |-> {<<"s","a","l","o","n">>, <<"l","i","v","i","n","g">>}],
       [category |-> <<"C","O","R","R","I","D","O","R">>,
        keywords |-> {<<"c","o","r","r","i","d","o","r">>, <<"c","o","u","l","o","i","r">>}],
       [category |-> <<"F","O","Y","E","R">>,
        keywords |-> {<<"f","o","y","e","r">>, <<"e","n","t","r","é","e">>}],
       [category |-> <<"B","U","R","E","A","U">>,
        keywords |-> {<<"b","u","r","e","a","u">>, <<"o","f","f","i","c","e">>}],
       [category |-> <<"R","A","N","G","E","M","E","N","T">>,
        keywords |-> {<<"r","a","n","g","e","m","e","n","t">>, <<"s","t","o","r","a","g","e">>}],
       [category |-> <<"F","U","R","N","I","S","H","I","N","G">>,
        keywords |-> {<<"m","o","b","i","l","i","e","r">>, <<"f","u","r","n","i","t","u","r","e">>, <<"c","h","a","i","r">>, <<"t","a","b","l","e">>, <<"d","e","s","k">>, <<"c","a","b","i","n","e","t">>, <<"s","h","e","l","f">>}],
       [category |-> <<"E","C","L","A","I","R","A","G","E">>,
        keywords |-> {<<"l","a","m","p">>, <<"l","i","g","h","t">>, <<"f","i","x","t","u","r","e">>, <<"l","u","m","i","n","a","i","r","e">>}],
       [category |-> <<"A","P","P","A","R","E","I","L">>,
        keywords |-> {<<"a","p","p","l","i","a","n","c","e">>, <<"a","p","p","a","r","e","i","l">>, <<"m","a","c","h","i","n","e">>}],
       [category |-> <<"G","A","R","D","E","_","C","O","R","P","S">>,
        keywords |-> {<<"g","a","r","d","e","-","c","o","r","p","s">>, <<"m","a","i","n","s","c","o","u","r","a","n","t","e">>, <<"r","a","i","l","i","n","g">>, <<"h","a","n","d","r","a","i","l">>}],
       [category |-> <<"P","R","O","X","Y">>,
        keywords |-> {<<"p","r","o","x","y">>, <<"e","l","e","m","e","n","t","p","r","o","x","y">>, <<"b","u","i","l","d","i","n","g","e","l","e","m","e","n","t","p","r","o","x","y">>}],
       [category |-> <<"G","E","N","E","R","I","C">>,
        keywords |-> {<<"g","e","n","e","r","i","c">>, <<"u","n","d","e","f","i","n","e","d">>, <<"u","n","k","n","o","w","n">>, <<"m","i","s","c">>}] >>

\* the keyword lists of the main category branches, in their order
MainCategoryKeywords ==
    << [category |-> <<"C","H","A","M","B","R","E">>,
        keywords |-> {<<"c","h","a","m","b","r","e">>, <<"b","e","d","r","o","o","m">>, <<"r","o","o","m">>}],
       [category |-> <<"S","A","L","L","E","_","D","E","_","B","A","I","N">>,
        keywords |-> {<<"b","a","i","n">>, <<"b","a","t","h">>, <<"d","o","u","c","h","e">>, <<"s","h","o","w","e","r">>, <<"t","o","i","l","e","t","t","e">>, <<"t","o","i","l","e","t">>, <<"w","c">>}],
       [category |-> <<"C","U","I","S","I","N","E">>,
        keywords |-> {<<"c","u","i","s","i","n","e">>, <<"k","i","t","c","h","e","n">>}],
       [category |-> <<"S","A","L","O","N">>,
        keywords |-> {<<"s","a","l","o","n">>, <<"l","i","v","i","n","g">>, <<"s","é","j","o","u","r">>}],
       [category |-> <<"F","O","Y","E","R">>,
        keywords |-> {<<"f","o","y","e","r">>, <<"e","n","t","r","é","e">>, <<"e","n","t","r","a","n","c","e">>, <<"h","a","l","l">>}],
       [category |-> <<"B","U","R","E","A","U">>,
        keywords |-> {<<"b","u","r","e","a","u">>, <<"o","f","f","i","c","e">>, <<"é","t","u","d","e">>}],
       [category |-> <<"C","O","R","R","I","D","O","R">>,
        keywords |-> {<<"c","o","r","r","i","d","o","r">>, <<"c","o","u","l","o","i","r">>, <<"p","a","s","s","a","g","e">>, <<"h","a","l","l","w","a","y">>}],
       [category |-> <<"R","A","N","G","E","M","E","N","T">>,
        keywords |-> {<<"r","a","n","g","e","m","e","n","t">>, <<"s","t","o","r","a","g","e">>, <<"c","l","o","s","e","t">>}],
       [category |-> <<"C","L","O","I","S","O","N">>,
        keywords |-> {<<"m","u","r">>, <<"w","a","l","l">>, <<"c","l","o","i","s">>, <<"p","a","r","t","i","t","i","o","n">>}],
       [category |-> <<"F","U","R","N","I","S","H","I","N","G">>,
        keywords |-> {<<"m","o","b","i","l","i","e","r">>, <<"f","u","r","n","i","t","u","r","e">>, <<"c","h","a","i","r">>, <<"t","a","b","l","e">>, <<"d","e","s","k">>, <<"c","a","b","i","n","e","t">>, <<"s","h","e","l","f">>}],
       [category |-> <<"P","L","A","F","O","N","D">>,
        keywords |-> {<<"p","l","a","f","o","n","d">>, <<"c","e","i","l","i","n","g">>, <<"c","o","m","p","o","s","é">>, <<"p","l","a","f">>}],
       [category |-> <<"P","L","A","N","C","H","E","R">>,
        keywords |-> {<<"p","l","a","n","c","h","e","r">>, <<"f","l","o","o","r">>, <<"s","o","l">>}],
       [category |-> <<"P","O","R","T","E">>,
        keywords |-> {<<"p","o","r","t","e">>, <<"d","o","o","r">>}] >>

\* the category of the first branch one of whose keywords the name holds
FirstBranch(branch_table, name_lower, otherwise) ==
    LET hits == {b \in 1..Len(branch_table) :
                    \E keyword \in branch_table[b].keywords : Contains(keyword, name_lower)}
    IN  IF hits # {} THEN branch_table[SetMin(hits)].category ELSE otherwise

\* categorize_element_with_subcategory(name): (main_category, subcategory)
categorize_element_with_subcategory(name) ==
    << FirstBranch(MainCategoryKeywords, Lower(name), sEspaceGeneral),
       FirstBranch(SubcategoryKeywords, Lower(name), sGENERAL) >>

exclude_keywords ==
    {<<"m","o","b","i","l","i","e","r">>, <<"m","o","b","i","l","i">>, <<"f","u","r","n","i","t","u","r","e">>, <<"c","h","a","i","r">>, <<"t","a","b","l","e">>, <<"d","e","s","k">>, <<"b","e","d">>, <<"c","a","b","i","n","e","t">>, <<"s","h","e","l","f">>, <<"l","a","m","p">>, <<"l","i","g","h","t">>, <<"f","i","x","t","u","r","e">>, <<"a","p","p","l","i","a","n","c","e">>, <<"p","r","o","x","y">>, <<"e","l","e","m","e","n","t","p","r","o","x","y">>, <<"b","u","i","l","d","i","n","g","e","l","e","m","e","n","t","p","r","o","x","y">>, <<"g","a","r","d","e","-","c","o","r","p","s">>, <<"m","a","i","n","s","c","o","u","r","a","n","t","e">>, <<"r","a","i","l","i","n","g">>, <<"h","a","n","d","r","a","i","l">>}

\* should_include_object(obj_name)
should_include_object(obj_name) ==
    ~\E keyword \in exclude_keywords : Contains(keyword, Lower(obj_name))

category_colors ==
    << <<<<"C","H","A","M","B","R","E">>, <<10, 80, 10, 100>>>>,
       <<<<"S","A","L","L","E","_","D","E","_","B","A","I","N">>, <<80, 10, 80, 100>>>>,
       <<<<"C","U","I","S","I","N","E">>, <<100, 50, 0, 100>>>>,
       <<<<"S","A","L","O","N">>, <<10, 10, 80, 100>>>>,
       <<<<"F","O","Y","E","R">>, <<10, 80, 80, 100>>>>,
       <<<<"B","U","R","E","A","U">>, <<80, 80, 10, 100>>>>,
       <<<<"C","O","R","R","I","D","O","R">>, <<80, 40, 10, 100>>>>,
       <<<<"R","A","N","G","E","M","E","N","T">>, <<60, 60, 60, 100>>>>,
       <<<<"E","S","P","A","C","E","_","G","E","N","E","R","A","L">>, <<50, 50, 50, 100>>>> >>

\* category_colors.get(main_category, (0.5, 0.5, 0.5, 1.0))
category_color(main_category) ==
    LET hits == {k \in 1..Len(category_colors) : category_colors[k][1] = main_category}
    IN  IF hits = {} THEN <<50, 50, 50, 100>> ELSE category_colors[SetMin(hits)][2]

\* the first collection whose name holds the three words, 0 when none does
interior_collection(cs) ==
    LET hits == {i \in 1..Len(cs) : /\ Contains(sMDANicolet, cs[i].name)
                                    /\ Contains(sINTWord, cs[i].name)
                                    /\ Contains(sNIVEAU5, cs[i].name)}
    IN  IF hits = {} THEN 0 ELSE SetMin(hits)

\* bpy.data.materials.new(name) with the nodes the script gives it
usage_material(mats, name, colour) ==
    [name |-> UniqueName({mats[k].name : k \in 1..Len(mats)}, name),
     use_nodes |-> TRUE, has_bsdf |-> TRUE, base_color |-> colour, alpha |-> 100,
     blend_method |-> "OPAQUE"]

\* dict lookup by key in a list of (key, value) pairs: the position, 0 when absent
KeyIndex(pairs, key) ==
    IF \E k \in 1..Len(pairs) : pairs[k][1] = key
    THEN CHOOSE k \in 1..Len(pairs) : pairs[k][1] = key
    ELSE 0

\* collection.objects.link(obj)
WithObject(cs, c, o) == [cs EXCEPT ![c].objects = Append(@, o)]

\* create_usage_prism(obj, main_category, subcategory, category_data, collection)
create_usage_prism(sc, o, main_category, subcategory, colour, collection) ==
    LET min_x == SetMin({v[1] : v \in sc.meshVerts[o]})
        max_x == SetMax({v[1] : v \in sc.meshVerts[o]})
        min_y == SetMin({v[2] : v \in sc.meshVerts[o]})
        max_y == SetMax({v[2] : v \in sc.meshVerts[o]})
        name == sUsagePrismUnderscore \o main_category \o <<"_">> \o subcategory \o <<"_">>
                    \o sc.objs[o].name
        prism_obj == Obj(UniqueName({sc.objs[k].name : k \in 1..Len(sc.objs)}, name),
                         "MESH", <<0, 0, 0>>, <<>>)
        material == usage_material(sc.materials,
                        sUsageMaterialUnderscore \o main_category \o <<"_">> \o subcategory, colour)
    IN  [sc EXCEPT !.objs = Append(@, prism_obj),
                   !.colls = WithObject(@, collection, Len(sc.objs) + 1),
                   !.meshVerts = Append(@, {<<x, y, z>> : x \in {min_x, max_x}, y \in {min_y, max_y},
                                                          z \in {0, PRISM_HEIGHT}}),
                   !.materials = Append(@, material),
                   !.objMats = Append(@, <<Len(sc.materials) + 1>>)]

\* the body of the loop over target_collection.objects for an object that is kept
add_prism(sc, o, main_collection) ==
    LET cat == categorize_element_with_subcategory(sc.objs[o].name)
        known == KeyIndex(sc.subcollections, cat[1])
        sc1 == IF known # 0 THEN sc
               ELSE [sc EXCEPT !.colls = [DataCollectionsNew(@, sFloorUsageUnderscore \o cat[1])
                                             EXCEPT ![main_collection].children =
                                                 Append(@, Len(sc.colls) + 1)],
                               !.subcollections = Append(@, <<cat[1], Len(sc.colls) + 1>>)]
        sc2 == create_usage_prism(sc1, o, cat[1], cat[2], category_color(cat[1]),
                                  sc1.subcollections[KeyIndex(sc1.subcollections, cat[1])][2])
        counted == KeyIndex(sc2.category_counts, cat[1])
    IN  [sc2 EXCEPT !.category_counts =
            IF counted = 0 THEN Append(@, <<cat[1], 1>>)
            ELSE [@ EXCEPT ![counted] = <<cat[1], @[2] + 1>>]]

\* for obj in target_collection.objects: if obj.type == 'MESH': if should_include_object(obj.name): ...
RECURSIVE add_prisms(_, _, _)
add_prisms(sc, todo, main_collection) ==
    IF todo = <<>> THEN sc
    ELSE add_prisms(IF sc.objs[Head(todo)].type = "MESH"
                       /\ should_include_object(sc.objs[Head(todo)].name)
                    THEN add_prism(sc, Head(todo), main_collection) ELSE sc,
                    Tail(todo), main_collection)

WithBody(o, body) == [f \in DOMAIN o \cup {"body"} |-> IF f = "body" THEN body ELSE o[f]]

\* create_floating_category_labels_with_subcategories: the labels from the k-th on
RECURSIVE add_labels(_, _, _)
add_labels(sc, k, collection) ==
    IF k > Len(sc.category_counts) THEN sc
    ELSE LET main_category == sc.category_counts[k][1]
             total_elements_of == sc.category_counts[k][2]
             text_obj == WithBody(Obj(UniqueName({sc.objs[j].name : j \in 1..Len(sc.objs)},
                                                 sLabelUnderscore \o main_category),
                                      "FONT", <<(k - 1) * LABEL_STEP, 0, LABEL_Z>>, <<>>),
                                  main_category \o <<" ", "(">> \o StrNat(total_elements_of)
                                      \o sElements)
             text_material == usage_material(sc.materials,
                                  sTextMaterialUnderscore \o main_category, <<0, 0, 0, 100>>)
         IN  add_labels([sc EXCEPT !.objs = Append(@, text_obj),
                                   !.colls = WithObject(@, collection, Len(sc.objs) + 1),
                                   !.meshVerts = Append(@, {}),
                                   !.materials = Append(@, text_material),
                                   !.objMats = Append(@, <<Len(sc.materials) + 1>>)],
                        k + 1, collection)

\* analyze_floor_usage(), step 2: create_realistic_floor_usage_visualization(usage_data)
UsageVisualize ==
    /\ usPc = "returned"
    /\ usage_data # NoneDict
    /\ LET old == CollIndex(colls, sFloorUsageVisualization)
           cs1 == IF old # 0 THEN collections_remove(colls, old) ELSE colls
           root1 == IF old # 0 THEN without_collection(sceneRoot.children, old)
                    ELSE sceneRoot.children
           cs2 == DataCollectionsNew(cs1, sFloorUsageVisualization)
           main_collection == Len(cs2)
           target == interior_collection(cs2)
           start == [colls |-> cs2, objs |-> objs, meshVerts |-> meshVerts,
                     materials |-> materials, objMats |-> objMats,
                     subcollections |-> <<>>, category_counts |-> <<>>]
           after == IF target = 0 THEN start
                    ELSE add_labels(add_prisms(start, cs2[target].objects,
                                               main_collection), 1, main_collection)
       IN  /\ colls' = after.colls
           /\ sceneRoot' = [sceneRoot EXCEPT !.children = Append(root1, main_collection)]
           /\ objs' = after.objs
           /\ meshVerts' = after.meshVerts
           /\ materials' = after.materials
           /\ objMats' = after.objMats
    /\ usPc' = "visualized"
    /\ UNCHANGED <<selected, fsVars, exportVars, importVars, alignVars, renameVars,
                   selectVars, patVars, trCall, trCalls, callVars, colorVars,
                   tiPc, building_bounds, modules, usage_data, total_elements>>

\* element names: a bedroom, a wall and a slab that hold no keyword, an
\* entrance in capitals, and a bathroom, whose name holds "room"
UsageNames == {<<"C","h","a","m","b","r","e"," ","1">>, <<"I","f","c","W","a","l","l","/","W">>, <<"E","N","T","R","É","E">>, <<"B","a","t","h","r","o","o","m">>, <<"I","f","c","S","l","a","b","/","S">>}
UsageStoreys == {sNiveau5, sNiveau4}
UsageTypes == {"MESH"}

UsageRow(id, name, type, storey) ==
    [id |-> id, global_id |-> <<>>, name |-> name, type |-> type, storey |-> storey,
     discipline |-> sDiscSTR, glb_path |-> <<>>, created_at |-> 1]

UsageTables ==
    UNION {[1..n -> UsageNames \X UsageTypes \X UsageStoreys] : n \in 0..MaxUsageRows}

sIntNiveau5 == <<"M","D","A","-","N","i","c","o","l","e","t","/","I","N","T","/","N","I","V","E","A","U"," ","5">>
sChambre1 == <<"C","h","a","m","b","r","e"," ","1">>
sMur3 == <<"M","u","r"," ","3">>
sTable2 == <<"T","a","b","l","e"," ","2">>
sENTREE == <<"E","N","T","R","É","E">>
sFloorUsageChambre == <<"F","L","O","O","R","_","U","S","A","G","E","_","C","H","A","M","B","R","E">>
sOldPrism == <<"U","s","a","g","e","_","P","r","i","s","m","_","C","H","A","M","B","R","E","_","C","H","A","M","B","R","E","_","C","h","a","m","b","r","e"," ","1">>
sOldMaterial == <<"U","s","a","g","e","_","M","a","t","e","r","i","a","l","_","C","H","A","M","B","R","E","_","C","H","A","M","B","R","E">>

\* level 5 of the interior model (a bedroom, two walls, a table, an entrance
\* in capitals and a storey empty) or of the structure only; with prior the
\* file holds the visualisation of an earlier run
UsageKinds == {"interior", "structure"}

UsageColls(kind, prior) ==
    << Coll(IF kind = "interior" THEN sIntNiveau5 ELSE sStrNiveau5, <<>>, <<1, 2, 3, 4, 5, 6>>) >>
    \o (IF prior THEN << Coll(sFloorUsageVisualization, <<3>>, <<>>),
                         Coll(sFloorUsageChambre, <<>>, <<7>>) >>
        ELSE <<>>)

UsageObjs(prior) ==
    << Obj(sChambre1, "MESH", <<0, 0, 0>>, <<>>),
       Obj(sWallW, "MESH", <<0, 0, 0>>, <<>>),
       Obj(sTable2, "MESH", <<0, 0, 0>>, <<>>),
       Obj(sENTREE, "MESH", <<0, 0, 0>>, <<>>),
       Obj(sRefN1, "EMPTY", <<0, 0, 0>>, <<>>),
       Obj(sMur3, "MESH", <<0, 0, 0>>, <<>>) >>
    \o (IF prior THEN << Obj(sOldPrism, "MESH", <<0, 0, 0>>, <<>>) >> ELSE <<>>)

UsageVerts(prior) ==
    << {<<0, 0, 0>>, <<4096000, 3072000, 2560000>>},
       {<<0, 0, 0>>, <<4096000, 0, 2560000>>, <<4096000, 256000, 0>>},
       {<<1024000, 1024000, 0>>, <<2048000, 1536000, 768000>>},
       {<<-2048000, 0, 0>>, <<0, 1024000, 0>>, <<-1024000, 2048000, 0>>},
       {},
       {<<0, 3072000, 0>>, <<4096000, 3328000, 2560000>>} >>
    \o (IF prior THEN << {<<0, 0, 0>>, <<4096000, 3072000, PRISM_HEIGHT>>} >> ELSE <<>>)

InitUsage ==
    /\ \/ fsElem = <<>>
       \/ \E t \in UsageTables :
             fsElem = Put(<<>>, sCwd, [i \in 1..Len(t) |-> UsageRow(i, t[i][1], t[i][2], t[i][3])])
    /\ \E kind \in UsageKinds, prior \in BOOLEAN :
          /\ colls = UsageColls(kind, prior)
          /\ objs = UsageObjs(prior)
          /\ sceneRoot = [children |-> IF prior THEN <<1, 2>> ELSE <<1>>, objects |-> <<>>]
          /\ meshVerts = UsageVerts(prior)
          /\ objMats = IF prior THEN << <<>>, <<>>, <<>>, <<>>, <<>>, <<>>, <<1>> >>
                       ELSE << <<>>, <<>>, <<>>, <<>>, <<>>, <<>> >>
          /\ materials = IF prior
                         THEN << usage_material(<<>>, sOldMaterial, <<10, 80, 10, 100>>) >>
                         ELSE <<>>
    /\ selected = {}
    /\ fsGlb = <<>> /\ fsProp = <<>> /\ fsIndex = <<>>
    /\ fsLog = <<>> /\ fsDirs = {}
    /\ tiPc = "idle" /\ building_bounds = NoneDict /\ modules = <<>>
    /\ usPc = "idle" /\ usage_data = NoneDict /\ total_elements = 0
    /\ ExportIdle
    /\ ImportIdle
    /\ AlignIdle
    /\ SelectorIdle
    /\ RenameIdle

NextUsage == UsageGetData \/ UsageVisualize

SpecUsage == InitUsage /\ [][NextUsage]_vars

(***************************************************************************)
(* Properties of the usage count                                           *)
(***************************************************************************)
Niveau5Rows == {i \in 1..Len(fsElem[sCwd]) : fsElem[sCwd][i].storey = sNiveau5}

RECURSIVE SumOfCounts(_, _)
SumOfCounts(cats, k) == IF k = 0 THEN 0 ELSE cats[k].count + SumOfCounts(cats, k - 1)

HoldsKeyword(name) ==
    \E b \in 1..Len(UsageKeywords) : \E keyword \in UsageKeywords[b].keywords :
        Contains(keyword, Lower(name))

CountOf(cats, category) ==
    cats[CHOOSE k \in 1..Len(cats) : cats[k].category = category].count

\* C29: when get_floor_usage_data returns a dict, the sum of its category
\* counts equals total_elements and the number of ifc_element rows of storey
\* 'NIVEAU 5', and the rows whose name holds no keyword are counted in the
\* catch-all category 'AUTRE'.
C29_EveryElementCounted ==
    (usPc = "returned" /\ usage_data # NoneDict) =>
        LET cats == usage_data.usage_categories
        IN  /\ SumOfCounts(cats, Len(cats)) = total_elements
            /\ total_elements = Cardinality(Niveau5Rows)
            /\ CountOf(cats, sAutre)
                  = Cardinality({i \in Niveau5Rows : ~HoldsKeyword(fsElem[sCwd][i].name)})
====
